---- MODULE Spec2Model ----
(***************************************************************************)
(* Verification model of the vector-control dashboard core:                *)
(*   utils/data_processor.py   DataProcessor (process_data,                *)
(*                              get_filtered_data, get_unique_values)      *)
(*   components/cerco_tab.py    CercoTab calculation routines              *)
(*   components/filters.py      FilterComponent.render_filters             *)
(*   app.py                     main (upload handling across reruns)       *)
(*   utils/sector_similarity.py SectorSimilarityDetector.apply_unification *)
(*   utils/table_helpers.py     safe_dataframe (bounded render guard)      *)
(*                                                                         *)
(* A pandas DataFrame is a record [columns, rows]; a row carries its index *)
(* label idx and one field per modelled column.  Python's None is the      *)
(* string None, a dict is a TLA+ function, a list is a sequence.           *)
(***************************************************************************)
EXTENDS Integers, Sequences, FiniteSets, TLC

VARIABLES
    \* ---- DataProcessor / get_filtered_data ----
    data,           \* self.data, the canonical table
    view,           \* the frame returned by the last get_filtered_data call
    outcome,        \* "idle" | "returned" | "KeyError" for the last call
    activity_type,  \* argument of the last call
    filters,        \* argument of the last call
    \* ---- DataProcessor construction / process_data ----
    raw,            \* the uploaded table handed to DataProcessor(data)
    is_production,  \* self.is_production
    downcasting,    \* whether the installed pandas downcasts in replace
    phase,          \* "new" | "built" | "rerun" | "raised"
    built,          \* self.data as it was when __init__ returned
    \* ---- safe_dataframe ----
    table,          \* parameter df, the table to display:
                    \*   [rows, heavy, heavy_kb, light_kb]
    max_rows,       \* parameter max_rows
    max_memory_kb,  \* parameter max_memory_mb, in KB
    pc,             \* "start" | "loop" | "done"
    safe_row_count, \* local safe_row_count
    shown,          \* what was displayed: "none" | "info" | "full" | "slice" | "schema"
    shown_rows,     \* rows of the displayed frame
    warned_rows,    \* "Mostrando primeras N filas" of the warning
    metric_rows,    \* the "Mostrando" metric
    not_shown,      \* "N filas adicionales no se muestran", or None
    \* ---- CercoTab calculations ----
    cerco_view,     \* filtered_data handed to a calculation routine
    calc,           \* the routine that ran last, "none" before any
    result,         \* what the routine returned
    \* ---- sector unification interface ----
    ui,             \* "idle" | "start" | "detected" | "rendered"
    similar_groups, \* result of find_similar_sectors_by_province
    choices,        \* the widget values the user set, per listed group
    unification_mapping_by_province,
                    \* result of render_sector_unification_interface_by_province
    \* ---- app.py main(): upload handling across Streamlit reruns ----
    uploaded_file,  \* value of the st.file_uploader widget, None when empty
    session_state,  \* st.session_state: [data, data_processor], the file each holds
    constructions,  \* per file, how many times DataProcessor(data) ran for it
    uploads,        \* per file, how many times it was uploaded
    \* ---- DataProcessor.get_unique_values ----
    uv_column,      \* argument column_name of the last call
    uv_sorted,      \* argument sorted_order of the last call
    unique_values,  \* the list the last call returned, None before any call
    \* ---- FilterComponent.apply_date_filter ----
    date_view,      \* the frame the caller holds and passes as data
    date_given,     \* that frame as it was when the call was made
    date_range,     \* filters.get('date_range'): [present, start, end]
    date_applied,   \* whether cerco_tab.py:30-31 ran
    date_filtered,  \* the frame apply_date_filter returned
    \* ---- SectorSimilarityDetector.find_similar_sectors ----
    given_sectors,  \* argument sectors_list
    clustered,      \* whether the call returned
    reported_groups \* the dict it returned, as a list of [key, group]

callVars == <<view, outcome, activity_type, filters>>
normVars == <<raw, is_production, downcasting, phase, built>>
renderVars == <<table, max_rows, max_memory_kb, pc, safe_row_count, shown, shown_rows,
                warned_rows, metric_rows, not_shown>>
cercoVars == <<cerco_view, calc, result>>
unifyVars == <<ui, similar_groups, choices, unification_mapping_by_province>>
sessionVars == <<uploaded_file, session_state, constructions, uploads>>
uniqueVars == <<uv_column, uv_sorted, unique_values>>
dateVars == <<date_view, date_given, date_range, date_applied, date_filtered>>
clusterVars == <<given_sectors, clustered, reported_groups>>
helperVars == <<dateVars, clusterVars>>
extVars == <<cercoVars, unifyVars, sessionVars, uniqueVars, helperVars>>
vars == <<data, callVars, normVars, renderVars, extVars>>

\* Python None
None == "<None>"

\* a message or metric that was not written, and one that names n rows
Unsaid == [said |-> FALSE]
Said(n) == [said |-> TRUE, rows |-> n]

\* no safe_dataframe call is under way
RenderIdle ==
    /\ table = None /\ max_rows = 0 /\ max_memory_kb = 0 /\ pc = "done"
    /\ safe_row_count = 0 /\ shown = "none" /\ shown_rows = 0
    /\ warned_rows = Unsaid /\ metric_rows = Unsaid /\ not_shown = Unsaid

\* no calculation routine has been called
CercoIdle == cerco_view = None /\ calc = "none" /\ result = None

\* the unification interface has not been rendered
UnifyIdle == ui = "idle" /\ similar_groups = None /\ choices = None
             /\ unification_mapping_by_province = None

\* the CSV files a user may upload
Files == {"a.csv", "b.csv"}

\* app.py:37-40: a fresh session, nothing uploaded
SessionIdle ==
    /\ uploaded_file = None
    /\ session_state = [data |-> None, data_processor |-> None]
    /\ constructions = [f \in Files |-> 0]
    /\ uploads = [f \in Files |-> 0]

\* get_unique_values has not been called
UniqueIdle == uv_column = None /\ uv_sorted = FALSE /\ unique_values = None

\* apply_date_filter has not been called
NoRange == [present |-> FALSE, start |-> 0, end |-> 0]
DateIdle ==
    /\ date_view = None /\ date_given = None /\ date_range = NoRange
    /\ date_applied = FALSE /\ date_filtered = None

\* find_similar_sectors has not been called
ClusterIdle == given_sectors = <<>> /\ clustered = FALSE /\ reported_groups = <<>>

HelperIdle == DateIdle /\ ClusterIdle

\* the parts of the program a specification does not exercise are at rest
ExtIdle == CercoIdle /\ UnifyIdle /\ SessionIdle /\ UniqueIdle /\ HelperIdle

(***************************************************************************)
(* Bounds                                                                  *)
(***************************************************************************)
MaxRows == 2

(***************************************************************************)
(* Value domains of the modelled columns                                   *)
(***************************************************************************)
Provinces == {"LIMA", "CUSCO"}
ProvinceOrder == <<"LIMA", "CUSCO">>
SectorLabels == {"SAN JUAN", "SAN JUA"}
Activities == {"Cerco", "vigilancia"}
Flags == {0, 1}

AllColumns == {"nombre_prov", "sector", "tipoActividadInspeccion", "viv_positiva"}

\* str.lower() on the activity strings that occur
StrLower(s) ==
    CASE s = "Cerco" -> "cerco"
      [] s = "CERCO" -> "cerco"
      [] s = "cerco" -> "cerco"
      [] s = "Vigilancia" -> "vigilancia"
      [] s = "vigilancia" -> "vigilancia"
      [] OTHER -> s

RowCells == [nombre_prov : Provinces, sector : SectorLabels,
             tipoActividadInspeccion : Activities, viv_positiva : Flags]

MkRow(i, c) == [idx |-> i, nombre_prov |-> c.nombre_prov, sector |-> c.sector,
                tipoActividadInspeccion |-> c.tipoActividadInspeccion,
                viv_positiva |-> c.viv_positiva]

\* a fixed order of the row values
RowRank(c) ==
    (IF c.nombre_prov = "LIMA" THEN 0 ELSE 8)
    + (IF c.sector = "SAN JUAN" THEN 0 ELSE 4)
    + (IF c.tipoActividadInspeccion = "Cerco" THEN 0 ELSE 2)
    + c.viv_positiva

\* the tables of n rows with index labels 1..n.  get_filtered_data works row
\* by row, so the tables are taken up to the order of their rows: one
\* arrangement (by RowRank) stands for every permutation of it
RowSeqs(n) ==
    {[i \in 1..n |-> MkRow(i, f[i])] :
        f \in {g \in [1..n -> RowCells] :
                 \A i \in 1..n : i < n => RowRank(g[i]) <= RowRank(g[i + 1])}}

ColumnSets == {AllColumns,
               AllColumns \ {"tipoActividadInspeccion"},
               AllColumns \ {"nombre_prov"}}

CanonicalTables ==
    {[columns |-> cs, rows |-> rs] :
        cs \in ColumnSets, rs \in UNION {RowSeqs(n) : n \in 0..MaxRows}}

(***************************************************************************)
(* Filter sets.  A filter value is tagged with its Python type:            *)
(*   [kind |-> "int", val], [kind |-> "str", val],                         *)
(*   [kind |-> "list", of, vals], [kind |-> "tuple"] (a date range),       *)
(*   and a dict (a TLA+ function) under the two unification keys.          *)
(***************************************************************************)
ByProvinceKey == "sector_unification_mapping_by_province"
FlatKey == "sector_unification_mapping"

EmptyDict == [x \in {} |-> x]
IntV(n) == [kind |-> "int", val |-> n]
StrV(s) == [kind |-> "str", val |-> s]
ListV(t, q) == [kind |-> "list", of |-> t, vals |-> q]
TupleV == [kind |-> "tuple"]

\* bool(value) for a filter value (data_processor.py:230 "if value and ...")
Truthy(v) ==
    CASE v.kind = "int" -> v.val # 0
      [] v.kind = "str" -> v.val # ""
      [] v.kind = "list" -> Len(v.vals) > 0
      [] OTHER -> TRUE

\* bool(d) for a dict
TruthyDict(d) == DOMAIN d # {}

ColumnKind(c) == IF c = "viv_positiva" THEN "int" ELSE "str"

\* Series == scalar on one cell; values of different Python types are unequal
CellEq(row, key, v) == ColumnKind(key) = v.kind /\ row[key] = v.val

\* Series.isin(list) on one cell
CellIsIn(row, key, v) ==
    ColumnKind(key) = v.of /\ \E i \in 1..Len(v.vals) : row[key] = v.vals[i]

(***************************************************************************)
(* SectorSimilarityDetector.apply_unification and the frame bookkeeping of *)
(* get_filtered_data.  A frame state is [self, fd, shared]: self is        *)
(* self.data, fd is the local filtered_data, shared says whether both      *)
(* names are bound to the same DataFrame object, so that an in-place write *)
(* through fd is also a write to self.data.                                *)
(***************************************************************************)

\* Series.replace(dict) on one label: keys are matched against the original
\* value, a replaced value is not replaced again
SeriesReplace(label, mapping) ==
    IF label \in DOMAIN mapping THEN mapping[label] ELSE label

\* sector_similarity.py:275-296; returns [df, same]: same = the argument
\* object itself was returned (no copy was made)
apply_unification(df, column_name, unification_mapping) ==
    IF ~TruthyDict(unification_mapping) \/ column_name \notin df.columns
    THEN [df |-> df, same |-> TRUE]
    ELSE [df |-> [df EXCEPT !.rows =
                    [i \in 1..Len(df.rows) |->
                        [df.rows[i] EXCEPT ![column_name] =
                            SeriesReplace(df.rows[i][column_name], unification_mapping)]]],
          same |-> FALSE]

\* mutant: filtered_data = self.data (no copy): both names share one object
DataFrameAlias(df) == [self |-> df, fd |-> df, shared |-> TRUE]

\* data_processor.py:194  filtered_data = self.data.copy()
DataFrameCopy(df) == [self |-> df, fd |-> df, shared |-> FALSE]

\* filtered_data.loc[mask] = province_data : in-place write of the rows of
\* province_data (same index labels) into the object bound to filtered_data
LocAssign(st, province_data) ==
    LET written == [st.fd EXCEPT !.rows =
            [i \in 1..Len(st.fd.rows) |->
                IF \E j \in 1..Len(province_data.rows) :
                        province_data.rows[j].idx = st.fd.rows[i].idx
                THEN (CHOOSE r \in {province_data.rows[j] : j \in 1..Len(province_data.rows)} :
                        r.idx = st.fd.rows[i].idx)
                ELSE st.fd.rows[i]]]
    IN [self |-> IF st.shared THEN written ELSE st.self,
        fd |-> written, shared |-> st.shared]

RowSet(df) == {df.rows[i] : i \in 1..Len(df.rows)}

\* df[boolean mask] : a new frame with the rows the mask keeps; the mask is
\* the set of the index labels it is True at
MaskRows(df, mask) ==
    LET Keep(r) == r.idx \in mask
    IN [df EXCEPT !.rows = SelectSeq(df.rows, Keep)]

\* mutant: the province mask selects every row
ProvinceMaskAll(row, province) == TRUE

\* data_processor.py:204  filtered_data['nombre_prov'] == province
ProvinceMask(row, province) == row.nombre_prov = province

\* data_processor.py:203-208, one iteration of the loop over the provinces
UnifyProvince(st, province, mapping) ==
    LET province_mask == {r.idx : r \in {q \in RowSet(st.fd) : ProvinceMask(q, province)}}
    IN IF province_mask # {}
       THEN LocAssign(st, apply_unification(MaskRows(st.fd, province_mask), "sector", mapping).df)
       ELSE st

\* data_processor.py:203  for province, mapping in ....items()
RECURSIVE UnifyByProvince(_, _, _)
UnifyByProvince(st, by_province, k) ==
    IF k > Len(ProvinceOrder) THEN st
    ELSE UnifyByProvince(
            IF ProvinceOrder[k] \in DOMAIN by_province
            THEN UnifyProvince(st, ProvinceOrder[k], by_province[ProvinceOrder[k]])
            ELSE st,
            by_province, k + 1)

\* rebinding filtered_data to a frame that is a new object unless same
Rebind(st, res) ==
    [self |-> st.self, fd |-> res.df, shared |-> st.shared /\ res.same]

\* mutant: an empty by-province mapping falls through to the flat mapping
UnificationStepFallThrough(st, f) ==
    IF DOMAIN f # {} /\ ByProvinceKey \in DOMAIN f /\ TruthyDict(f[ByProvinceKey])
       /\ "sector" \in st.fd.columns /\ "nombre_prov" \in st.fd.columns
    THEN UnifyByProvince(st, f[ByProvinceKey], 1)
    ELSE IF DOMAIN f # {} /\ FlatKey \in DOMAIN f /\ "sector" \in st.fd.columns
    THEN IF TruthyDict(f[FlatKey])
         THEN Rebind(st, apply_unification(st.fd, "sector", f[FlatKey]))
         ELSE st
    ELSE st

\* data_processor.py:196-216
UnificationStep(st, f) ==
    IF DOMAIN f # {} /\ ByProvinceKey \in DOMAIN f
       /\ "sector" \in st.fd.columns /\ "nombre_prov" \in st.fd.columns
    THEN IF TruthyDict(f[ByProvinceKey])
         THEN UnifyByProvince(st, f[ByProvinceKey], 1)
         ELSE st
    ELSE IF DOMAIN f # {} /\ FlatKey \in DOMAIN f /\ "sector" \in st.fd.columns
    THEN IF TruthyDict(f[FlatKey])
         THEN Rebind(st, apply_unification(st.fd, "sector", f[FlatKey]))
         ELSE st
    ELSE st

\* data_processor.py:219-222; [raised, st]
ActivityStep(st, at) ==
    IF at = None \/ at = ""
    THEN [raised |-> FALSE, st |-> st]
    ELSE IF "tipoActividadInspeccion" \notin st.fd.columns
    THEN [raised |-> TRUE, st |-> st]
    ELSE LET mask == {r.idx : r \in {q \in RowSet(st.fd) :
                        StrLower(q.tipoActividadInspeccion) = StrLower(at)}}
         IN [raised |-> FALSE,
             st |-> [self |-> st.self, fd |-> MaskRows(st.fd, mask), shared |-> FALSE]]

\* dict iteration order of the filter set (insertion order in the callers)
FilterKeyOrder == <<ByProvinceKey, FlatKey, "nombre_prov", "sector",
                    "viv_positiva", "date_range">>


\* data_processor.py:230-234
ApplyOneFilter(df, key, value) ==
    IF Truthy(value) /\ key \in df.columns
    THEN IF value.kind = "list"
         THEN MaskRows(df, {r.idx : r \in {q \in RowSet(df) : CellIsIn(q, key, value)}})
         ELSE MaskRows(df, {r.idx : r \in {q \in RowSet(df) : CellEq(q, key, value)}})
    ELSE df

\* mutant: every filter is applied to the frame the loop started with, not to
\* the rows the earlier filters kept, so that the last filter wins
RECURSIVE ColumnFilterStepLastWins(_, _, _)
ColumnFilterStepLastWins(df, f, k) ==
    IF k > Len(FilterKeyOrder) THEN df
    ELSE LET key == FilterKeyOrder[k]
             later == ColumnFilterStepLastWins(df, f, k + 1)
         IN IF key \notin DOMAIN f \/ key \in {FlatKey, ByProvinceKey}
            THEN later
            ELSE IF \E j \in (k + 1)..Len(FilterKeyOrder) :
                       /\ FilterKeyOrder[j] \in DOMAIN f
                       /\ FilterKeyOrder[j] \notin {FlatKey, ByProvinceKey}
                       /\ FilterKeyOrder[j] \in df.columns
                       /\ Truthy(f[FilterKeyOrder[j]])
                 THEN later
                 ELSE ApplyOneFilter(df, key, f[key])

\* data_processor.py:225-234
RECURSIVE ColumnFilterStep(_, _, _)
ColumnFilterStep(df, f, k) ==
    IF k > Len(FilterKeyOrder) THEN df
    ELSE LET key == FilterKeyOrder[k]
         IN IF key \notin DOMAIN f \/ key \in {FlatKey, ByProvinceKey}
            THEN ColumnFilterStep(df, f, k + 1)
            ELSE ColumnFilterStep(ApplyOneFilter(df, key, f[key]), f, k + 1)

\* mutant: the column filters run before the unification
get_filtered_data_FilterFirst(self_data, at, f) ==
    LET s0 == DataFrameCopy(self_data)
        a  == ActivityStep(s0, at)
        c  == [self |-> s0.self, fd |-> ColumnFilterStep(a.st.fd, f, 1), shared |-> FALSE]
        s1 == UnificationStep(c, f)
    IN IF a.raised
       THEN [self |-> a.st.self, raised |-> TRUE, result |-> None]
       ELSE [self |-> s1.self, raised |-> FALSE, result |-> s1.fd]

\* data_processor.py:192-236; [self, raised, result]: self.data after the
\* call, whether KeyError was raised, and the returned frame
get_filtered_data(self_data, at, f) ==
    LET s0 == DataFrameCopy(self_data)
        s1 == UnificationStep(s0, f)
        a  == ActivityStep(s1, at)
    IN IF a.raised
       THEN [self |-> a.st.self, raised |-> TRUE, result |-> None]
       ELSE [self |-> a.st.self, raised |-> FALSE,
             result |-> ColumnFilterStep(a.st.fd, f, 1)]

(***************************************************************************)
(* The arguments the calls are made with                                   *)
(***************************************************************************)
RawLabel == "SAN JUA"
CanonLabel == "SAN JUAN"

\* the mapping the unification interface builds for one ticked group: every
\* variant of the group, the chosen name included, maps to the chosen name
MapUI == [x \in {RawLabel, CanonLabel} |-> CanonLabel]
MapOne == [x \in {RawLabel} |-> CanonLabel]
MapSwap == [x \in {RawLabel, CanonLabel} |-> IF x = RawLabel THEN CanonLabel ELSE RawLabel]
MapBack == [x \in {CanonLabel} |-> RawLabel]

ByProv1(p, m) == [x \in {p} |-> m]

UnificationParts ==
    { EmptyDict,
      [k \in {ByProvinceKey} |-> EmptyDict],
      [k \in {ByProvinceKey} |-> ByProv1("LIMA", MapUI)],
      [k \in {ByProvinceKey} |-> ByProv1("LIMA", MapOne)],
      [k \in {ByProvinceKey} |-> ByProv1("LIMA", MapSwap)],
      [k \in {ByProvinceKey} |-> ByProv1("CUSCO", EmptyDict)],
      [k \in {ByProvinceKey} |->
          [x \in Provinces |-> IF x = "LIMA" THEN MapOne ELSE MapBack]],
      [k \in {FlatKey} |-> MapUI],
      [k \in {FlatKey} |-> EmptyDict],
      [k \in {ByProvinceKey, FlatKey} |->
          IF k = ByProvinceKey THEN ByProv1("LIMA", MapOne) ELSE MapBack],
      [k \in {ByProvinceKey, FlatKey} |->
          IF k = ByProvinceKey THEN EmptyDict ELSE MapOne] }

ColumnParts ==
    { EmptyDict,
      [k \in {"sector"} |-> StrV(CanonLabel)],
      [k \in {"sector"} |-> StrV(RawLabel)],
      [k \in {"sector"} |-> StrV("")],
      [k \in {"sector"} |-> ListV("str", <<RawLabel>>)],
      [k \in {"viv_positiva"} |-> IntV(0)],
      [k \in {"viv_positiva"} |-> IntV(1)],
      [k \in {"viv_positiva"} |-> ListV("int", <<0, 1>>)],
      [k \in {"viv_positiva"} |-> ListV("int", <<>>)],
      [k \in {"nombre_prov"} |-> StrV("LIMA")],
      [k \in {"date_range"} |-> TupleV],
      [k \in {"sector", "viv_positiva"} |->
          IF k = "sector" THEN StrV(CanonLabel) ELSE IntV(1)] }

\* dict union of two dicts with disjoint keys
DictUnion(f, g) ==
    [k \in DOMAIN f \cup DOMAIN g |-> IF k \in DOMAIN f THEN f[k] ELSE g[k]]

SectorParts ==
    { [k \in {"sector"} |-> StrV(CanonLabel)],
      [k \in {"sector"} |-> StrV(RawLabel)] }

ScopedParts ==
    { [k \in {ByProvinceKey} |-> ByProv1("LIMA", MapUI)],
      [k \in {ByProvinceKey} |-> ByProv1("LIMA", MapOne)],
      [k \in {ByProvinceKey} |-> ByProv1("LIMA", MapSwap)],
      [k \in {ByProvinceKey} |->
          [x \in Provinces |-> IF x = "LIMA" THEN MapOne ELSE MapBack]] }

\* the calls made: [at, f] = get_filtered_data(at, f)
Calls ==
    {[at |-> None, f |-> u] : u \in UnificationParts}
    \cup {[at |-> None, f |-> c] : c \in ColumnParts}
    \cup {[at |-> None, f |-> DictUnion(u, c)] : u \in ScopedParts, c \in SectorParts}
    \cup {[at |-> "CERCO", f |-> f] :
            f \in {EmptyDict,
                   [k \in {"viv_positiva"} |-> IntV(1)],
                   [k \in {ByProvinceKey} |-> ByProv1("LIMA", MapOne)],
                   [k \in {FlatKey} |-> MapUI],
                   DictUnion([k \in {ByProvinceKey} |-> ByProv1("LIMA", MapOne)],
                             [k \in {"sector"} |-> StrV(CanonLabel)])}}

(***************************************************************************)
(* The DataProcessor state machine: a constructed processor serving        *)
(* get_filtered_data calls                                                 *)
(***************************************************************************)
InitFilter ==
    /\ ExtIdle
    /\ data \in CanonicalTables
    /\ view = None
    /\ outcome = "idle"
    /\ activity_type = None
    /\ filters = EmptyDict
    /\ raw = None
    /\ is_production = FALSE
    /\ downcasting = FALSE
    /\ phase = "built"
    /\ built = None
    /\ RenderIdle

\* a caller (a tab's render) invokes get_filtered_data(at, f)
CallGetFilteredData ==
    /\ outcome # "calling"
    /\ \E c \in Calls :
          /\ activity_type' = c.at
          /\ filters' = c.f
    /\ outcome' = "calling"
    /\ view' = None
    /\ UNCHANGED <<data, normVars, renderVars, extVars>>

\* the call runs to its return or to the exception it raises
GetFilteredData ==
    /\ outcome = "calling"
    /\ LET r == get_filtered_data(data, activity_type, filters)
       IN /\ data' = r.self
          /\ view' = r.result
          /\ outcome' = IF r.raised THEN "KeyError" ELSE "returned"
    /\ UNCHANGED <<activity_type, filters, normVars, renderVars, extVars>>

NextFilter == CallGetFilteredData \/ GetFilteredData

SpecFilter == InitFilter /\ [][NextFilter]_vars

(***************************************************************************)
(* Properties of get_filtered_data                                         *)
(***************************************************************************)
Returned == outcome = "returned"
ViewIdx == {view.rows[i].idx : i \in 1..Len(view.rows)}
ViewRow(x) == CHOOSE r \in {view.rows[i] : i \in 1..Len(view.rows)} : r.idx = x
\* the by-province branch of the last call was taken with a non-empty mapping
ByProvinceApplied ==
    /\ ByProvinceKey \in DOMAIN filters
    /\ {"sector", "nombre_prov"} \subseteq data.columns
    /\ TruthyDict(filters[ByProvinceKey])

\* C1: no get_filtered_data call, whatever its activity type and filter set
\* (by-province and legacy flat mappings included), changes self.data: the
\* canonical table has the same rows and cell values after the call as before
C1_NeverMutatesData == [][data' = data]_vars

\* a call that returned a view whose sector labels differ from self.data's
C1_Witness ==
    /\ Returned
    /\ \E x \in ViewIdx : ViewRow(x).sector # data.rows[x].sector

\* C2: with a by-province mapping, a returned row differs from its canonical
\* row only in its sector label and only if its province P is a key of the
\* mapping and its canonical label is a key of P's mapping; a row whose
\* province is no key of the mapping is returned unchanged
C2_UnificationScoping ==
    (Returned /\ ByProvinceApplied) =>
        \A x \in ViewIdx :
            LET d == data.rows[x]
                r == ViewRow(x)
                bp == filters[ByProvinceKey]
            IN /\ r = [d EXCEPT !.sector = r.sector]
               /\ r.sector # d.sector =>
                    (d.nombre_prov \in DOMAIN bp /\ d.sector \in DOMAIN bp[d.nombre_prov])
               /\ d.nombre_prov \notin DOMAIN bp => r = d

\* a row of another province keeps a label that is a key of LIMA's mapping,
\* while a row of LIMA was renamed
C2_Witness ==
    /\ Returned /\ ByProvinceApplied
    /\ DOMAIN filters[ByProvinceKey] = {"LIMA"}
    /\ \E x \in ViewIdx :
          /\ data.rows[x].nombre_prov = "CUSCO"
          /\ data.rows[x].sector \in DOMAIN filters[ByProvinceKey]["LIMA"]
          /\ ViewRow(x) = data.rows[x]
    /\ \E x \in ViewIdx :
          /\ data.rows[x].nombre_prov = "LIMA"
          /\ ViewRow(x).sector # data.rows[x].sector

\* one more equality (or membership) filter on a column
ExtraFilters ==
    { [k \in {"sector"} |-> StrV(CanonLabel)],
      [k \in {"sector"} |-> StrV(RawLabel)],
      [k \in {"viv_positiva"} |-> IntV(0)],
      [k \in {"viv_positiva"} |-> IntV(1)],
      [k \in {"viv_positiva"} |-> ListV("int", <<1>>)],
      [k \in {"nombre_prov"} |-> StrV("CUSCO")],
      [k \in {"date_range"} |-> TupleV] }

\* C3: adding one filter k:v (k not yet in the filter set) to the last call
\* returns a subset of the rows the call returned, so at most as many rows
C3_FilterMonotone ==
    Returned =>
        \A e \in ExtraFilters :
            DOMAIN e \cap DOMAIN filters = {} =>
                LET more == get_filtered_data(data, activity_type, DictUnion(filters, e))
                IN /\ ~more.raised
                   /\ Len(more.result.rows) <= Len(view.rows)
                   /\ RowSet(more.result) \subseteq RowSet(view)

\* the last call had a column filter, and one more filter on another column
\* drops a row it returned while keeping another
C3_Witness ==
    /\ Returned
    /\ "sector" \in DOMAIN filters
    /\ Len(view.rows) = MaxRows
    /\ \E e \in ExtraFilters :
          /\ DOMAIN e = {"viv_positiva"}
          /\ DOMAIN e \cap DOMAIN filters = {}
          /\ LET more == get_filtered_data(data, activity_type, DictUnion(filters, e))
             IN Len(more.result.rows) = Len(view.rows) - 1

\* the filter set without its column filters
UnificationOnly(f) == [k \in DOMAIN f \cap {ByProvinceKey, FlatKey} |-> f[k]]

\* row satisfies the filter key:value as the claim reads it: membership for a
\* list, exact equality for a scalar
Satisfies(row, key, value) ==
    IF value.kind = "list" THEN CellIsIn(row, key, value) ELSE CellEq(row, key, value)

\* C4: the rows returned are exactly the rows (after unification and the
\* activity filter) that satisfy every filter whose key names a column, a
\* list meaning membership and a scalar exact equality, for every value
\* (0, the empty string and the empty list included); keys that name no
\* column change nothing
C4_ColumnFilterSemantics ==
    Returned =>
        LET base == get_filtered_data(data, activity_type, UnificationOnly(filters)).result
        IN RowSet(view) =
            {r \in RowSet(base) :
                \A k \in DOMAIN filters \ {ByProvinceKey, FlatKey} :
                    k \in data.columns => Satisfies(r, k, filters[k])}

\* the part of C4 the code keeps: the same, for the filters whose value is
\* truthy (not 0, not the empty string, not an empty list)
C4_TruthyFilterSemantics ==
    Returned =>
        LET base == get_filtered_data(data, activity_type, UnificationOnly(filters)).result
        IN RowSet(view) =
            {r \in RowSet(base) :
                \A k \in DOMAIN filters \ {ByProvinceKey, FlatKey} :
                    (k \in data.columns /\ Truthy(filters[k])) => Satisfies(r, k, filters[k])}

\* C5: unification precedes the equality filters.  With a by-province mapping
\* m for province P that renames a raw label v (no label is renamed to v) to
\* a canonical label c (c is not renamed away) and v # c: the filter
\* sector = c returns, of province P, exactly the rows (that pass the
\* activity filter) whose canonical-table label is renamed to c or is c, the
\* rows labelled v among them; the filter sector = v returns no row of P
PassesActivity(d) ==
    activity_type = None \/ StrLower(d.tipoActividadInspeccion) = StrLower(activity_type)

C5_UnificationBeforeFilters ==
    (Returned /\ ByProvinceApplied /\ DOMAIN filters = {ByProvinceKey, "sector"}) =>
        \A P \in DOMAIN filters[ByProvinceKey] :
            LET m == filters[ByProvinceKey][P]
                InP == {x \in 1..Len(data.rows) :
                            data.rows[x].nombre_prov = P /\ PassesActivity(data.rows[x])}
            IN \A v \in DOMAIN m :
                LET c == m[v]
                IN (/\ v # c
                    /\ \A y \in DOMAIN m : m[y] # v
                    /\ (c \in DOMAIN m => m[c] = c)) =>
                    /\ filters["sector"] = StrV(c) =>
                          /\ {x \in InP : data.rows[x].sector \in {v, c}} \subseteq ViewIdx
                          /\ {x \in ViewIdx : data.rows[x].nombre_prov = P}
                                = {x \in InP : SeriesReplace(data.rows[x].sector, m) = c}
                    /\ filters["sector"] = StrV(v) =>
                          \A x \in ViewIdx : data.rows[x].nombre_prov # P

\* the filter sector = SAN JUAN under LIMA's mapping SAN JUA -> SAN JUAN
\* returns a LIMA row stored as SAN JUA and a LIMA row stored as SAN JUAN
C5_Witness ==
    /\ Returned /\ ByProvinceApplied
    /\ DOMAIN filters = {ByProvinceKey, "sector"}
    /\ "LIMA" \in DOMAIN filters[ByProvinceKey]
    /\ filters[ByProvinceKey]["LIMA"] = MapOne
    /\ filters["sector"] = StrV(CanonLabel)
    /\ \E x, y \in ViewIdx :
          /\ data.rows[x].nombre_prov = "LIMA" /\ data.rows[x].sector = RawLabel
          /\ data.rows[y].nombre_prov = "LIMA" /\ data.rows[y].sector = CanonLabel

(***************************************************************************)
(* DataProcessor.__init__ and process_data.  Here a frame is held column   *)
(* by column: a function from the column names to [dtype, cells].  A cell  *)
(* is tagged: Null (NaN / None / NaT), Str(s), Num(n), Ts(<<y, m, d>>).    *)
(***************************************************************************)
MaxCells == 4
MaxPairCells == 2

Null == [t |-> "null"]
Str(x) == [t |-> "str", v |-> x]
Num(n) == [t |-> "num", v |-> n]
Ts(ymd) == [t |-> "ts", v |-> ymd]
\* a timestamp that carries a UTC offset
TsTz(ymd, offset) == [t |-> "ts", v |-> ymd, tz |-> offset]

\* data_processor.py:152-154
date_columns == {"fecha_inspeccion", "_createdAt_x", "_createdAt_y", "hora_ingreso",
                 "hora_salida", "fecha_creacion", "recuperacion_fecha",
                 "recuperacion_fecha_asignacion"}

\* data_processor.py:165-166
critical_numeric_columns == {"cod_renipress", "aedic_index", "container_index",
                             "breteau_index", "intensity", "indice_aedico"}

IsNumericDtype(d) == d \in {"int64", "float64"}

AllNull(cells) == \A i \in 1..Len(cells) : cells[i] = Null
AnyNull(cells) == \E i \in 1..Len(cells) : cells[i] = Null

\* DataFrame.replace(s, np.nan) on one column.  Only a column that can hold
\* the string is touched.  Where a value was replaced in an object column,
\* pandas before 3.0 then soft-converts the column (an all-NaN object column
\* becomes float64); pandas 3.0 and future.no_silent_downcasting do not
ReplaceColumn(col, s, lib_downcasts) ==
    IF col.dtype \in {"object", "category"} /\ \E i \in 1..Len(col.cells) : col.cells[i] = Str(s)
    THEN LET cells == [i \in 1..Len(col.cells) |->
                          IF col.cells[i] = Str(s) THEN Null ELSE col.cells[i]]
         IN [dtype |-> IF col.dtype = "object" /\ lib_downcasts /\ AllNull(cells)
                       THEN "float64" ELSE col.dtype,
             cells |-> cells]
    ELSE col

\* data_processor.py:147-149 (and 183-185 with '' as the new value)
ReplaceWithNaN(df, s, lib_downcasts) ==
    [c \in DOMAIN df |-> ReplaceColumn(df[c], s, lib_downcasts)]

\* the date strings that occur and what pd.to_datetime makes of them
ParseDate(x) ==
    CASE x = "2023-05-01" -> Ts(<<2023, 5, 1>>)
      [] x = "2024-12-31 23:30" -> Ts(<<2024, 12, 31>>)
      [] x = "2023-05-01 10:00+01:00" -> TsTz(<<2023, 5, 1>>, "+01:00")
      [] x = "2023-05-01 10:00-05:00" -> TsTz(<<2023, 5, 1>>, "-05:00")
      [] OTHER -> Null

\* the UTC offsets of the timestamps of a column
Offsets(cells) ==
    {cells[i].tz : i \in {j \in 1..Len(cells) : "tz" \in DOMAIN cells[j]}}

\* pd.to_datetime(series, errors='coerce').  Timestamps of more than one UTC
\* offset cannot share a datetime64 column: without utc=True the result is an
\* object column of timestamps
ToDatetime(col) ==
    LET cells == [i \in 1..Len(col.cells) |->
                    CASE col.cells[i].t = "str" -> ParseDate(col.cells[i].v)
                      [] col.cells[i].t = "ts" -> col.cells[i]
                      [] OTHER -> Null]
    IN [dtype |-> IF Cardinality(Offsets(cells)) > 1 THEN "object" ELSE "datetime64",
        cells |-> cells]

\* data_processor.py:156-158
ConvertDates(df) ==
    [c \in DOMAIN df |-> IF c \in date_columns THEN ToDatetime(df[c]) ELSE df[c]]

\* Series.dt.year: float64 with NaN where the date is NaT
DtYear(col) ==
    [dtype |-> IF AnyNull(col.cells) THEN "float64" ELSE "int64",
     cells |-> [i \in 1..Len(col.cells) |->
                  IF col.cells[i].t = "ts" THEN Num(col.cells[i].v[1]) ELSE Null]]

\* data_processor.py:161-162
ExtractYear(df) ==
    IF "fecha_inspeccion" \in DOMAIN df
    THEN [c \in DOMAIN df \cup {"year"} |->
            IF c = "year" THEN DtYear(df["fecha_inspeccion"]) ELSE df[c]]
    ELSE df

\* the numeric strings that occur and what pd.to_numeric makes of them
ParseNumber(x) ==
    CASE x = "3" -> Num(3)
      [] x = "0" -> Num(0)
      [] OTHER -> Null

\* Series.fillna(value)
FillNa(col, value) ==
    [col EXCEPT !.cells = [i \in 1..Len(col.cells) |->
                              IF col.cells[i] = Null THEN value ELSE col.cells[i]]]

\* pd.to_numeric(series, errors='coerce') then fillna(0)
ToNumericFilled(col) ==
    FillNa([dtype |-> "float64",
            cells |-> [i \in 1..Len(col.cells) |->
                         CASE col.cells[i].t = "str" -> ParseNumber(col.cells[i].v)
                           [] col.cells[i].t = "num" -> col.cells[i]
                           [] OTHER -> Null]], Num(0))

\* data_processor.py:168-171
ConvertCriticalNumeric(df) ==
    [c \in DOMAIN df |->
        IF c \in critical_numeric_columns THEN ToNumericFilled(df[c]) ELSE df[c]]

\* mutant: the numeric columns are left as they are
FillNumericNone(df) == df

\* data_processor.py:174-175
FillNumeric(df) ==
    [c \in DOMAIN df |-> IF IsNumericDtype(df[c].dtype) THEN FillNa(df[c], Num(0)) ELSE df[c]]

\* str(x) of a cell of an object column
AsStr(cell) ==
    CASE cell.t = "str" -> cell
      [] cell.t = "num" -> Str(ToString(cell.v))
      [] cell.t = "null" -> Str("nan")
      [] OTHER -> Str("timestamp")

\* data_processor.py:181-185 on one text column
CleanTextColumn(col) ==
    LET filled == FillNa(col, Str(""))
        asstr  == [dtype |-> "object",
                   cells |-> [i \in 1..Len(filled.cells) |-> AsStr(filled.cells[i])]]
        Blank(c, x) == [c EXCEPT !.cells = [i \in 1..Len(c.cells) |->
                            IF c.cells[i] = Str(x) THEN Str("") ELSE c.cells[i]]]
    IN Blank(Blank(Blank(asstr, "nan"), "NaN"), "None")

\* data_processor.py:178-185: select_dtypes(include=['object']) leaves the
\* category columns out
CleanText(df) ==
    [c \in DOMAIN df |->
        IF df[c].dtype = "object" /\ c \notin date_columns
        THEN CleanTextColumn(df[c]) ELSE df[c]]

\* data_processor.py:147-158
DatesConverted(df, lib_downcasts) ==
    LET d1 == ReplaceWithNaN(df, "", lib_downcasts)
        d2 == ReplaceWithNaN(d1, " ", lib_downcasts)
        d3 == ReplaceWithNaN(d2, "nan", lib_downcasts)
    IN ConvertDates(d3)

\* data_processor.py:161-162: the .dt accessor raises AttributeError on a
\* column that is not datetime64; nothing in process_data catches it
process_data_raises(df, lib_downcasts) ==
    LET d4 == DatesConverted(df, lib_downcasts)
    IN "fecha_inspeccion" \in DOMAIN d4 /\ d4["fecha_inspeccion"].dtype # "datetime64"

\* data_processor.py:144-185
process_data(df, lib_downcasts) ==
    LET d4 == DatesConverted(df, lib_downcasts)
        d5 == ExtractYear(d4)
        d6 == ConvertCriticalNumeric(d5)
        d7 == FillNumeric(d6)
    IN CleanText(d7)

\* Series.nunique(): the distinct non-null values
NUnique(cells) == Cardinality({cells[i] : i \in 1..Len(cells)} \ {Null})

\* mutant: the all-null columns are kept
optimize_for_production_KeepEmpty(df) ==
    [c \in DOMAIN df |->
          IF df[c].dtype = "object" /\ 10 * NUnique(df[c].cells) < 3 * Len(df[c].cells)
          THEN [df[c] EXCEPT !.dtype = "category"]
          ELSE df[c]]

\* data_processor.py:54-68 (the parts of _optimize_for_production that change
\* the table): drop the all-null columns, then turn the object columns with
\* nunique / len < 0.3 into category columns
optimize_for_production(df) ==
    LET kept == {c \in DOMAIN df : ~AllNull(df[c].cells)}
    IN [c \in kept |->
          IF df[c].dtype = "object" /\ 10 * NUnique(df[c].cells) < 3 * Len(df[c].cells)
          THEN [df[c] EXCEPT !.dtype = "category"]
          ELSE df[c]]

\* data_processor.py:9-19: an exception of process_data leaves __init__
DataProcessorInitRaises(df, production, lib_downcasts) ==
    process_data_raises(IF production THEN optimize_for_production(df) ELSE df,
                        lib_downcasts)

\* data_processor.py:9-19
DataProcessorInit(df, production, lib_downcasts) ==
    process_data(IF production THEN optimize_for_production(df) ELSE df, lib_downcasts)

(***************************************************************************)
(* The uploaded tables                                                     *)
(***************************************************************************)
TextCellSeq == <<Null, Str(""), Str(" "), Str("nan"), Str("NaN"), Str("None"), Str("A")>>
DateCellSeq == <<Null, Str("2023-05-01"), Str("2024-12-31 23:30"), Str("no-date")>>
NumCellSeq == <<Null, Num(0), Num(1)>>
CritCellSeq == <<Null, Num(2), Str("3"), Str("abc")>>
OffsetDateCellSeq == <<Null, Str("2023-05-01 10:00+01:00"), Str("2023-05-01 10:00-05:00"),
                       Str("no-date")>>

\* the dtype read_csv gives a column with these cells
RawDtype(cells) ==
    IF \E i \in 1..Len(cells) : cells[i].t = "str" THEN "object"
    ELSE IF AnyNull(cells) THEN "float64"
    ELSE "int64"

\* the columns of n cells drawn from dom.  process_data works cell by cell
\* and nunique ignores the order, so the columns are taken up to the order
\* of their cells
Columns(dom, n) ==
    {[dtype |-> RawDtype([i \in 1..n |-> dom[f[i]]]), cells |-> [i \in 1..n |-> dom[f[i]]]] :
        f \in {g \in [1..n -> 1..Len(dom)] : \A i \in 1..n : i < n => g[i] <= g[i + 1]}}

OneColumn(name, col) == [c \in {name} |-> col]

RawTables ==
    UNION {
        {OneColumn("sector", col) : col \in Columns(TextCellSeq, n)}
        \cup {OneColumn("fecha_inspeccion", col) : col \in Columns(DateCellSeq, n)}
        \cup {OneColumn("viv_positiva", col) : col \in Columns(NumCellSeq, n)}
        \cup {OneColumn("aedic_index", col) : col \in Columns(CritCellSeq, n)}
        \cup {OneColumn("fecha_inspeccion", col) : col \in Columns(OffsetDateCellSeq, n)}
        \cup {OneColumn("hora_ingreso", col) : col \in Columns(OffsetDateCellSeq, n)}
        : n \in 1..MaxCells}
    \cup UNION {
        {[c \in {"fecha_inspeccion", "sector"} |->
              [dtype |-> RawDtype(IF c = "sector" THEN t ELSE d),
               cells |-> IF c = "sector" THEN t ELSE d]] :
            d \in [1..n -> {DateCellSeq[i] : i \in 1..Len(DateCellSeq)}],
            t \in [1..n -> {Null, Str("None"), Str("A")}]}
        : n \in 1..MaxPairCells}

(***************************************************************************)
(* Construction of a DataProcessor, and a second run of process_data       *)
(***************************************************************************)
InitNorm ==
    /\ ExtIdle
    /\ raw \in RawTables
    /\ is_production \in BOOLEAN
    /\ downcasting \in BOOLEAN
    /\ phase = "new"
    /\ data = None
    /\ built = None
    /\ view = None
    /\ outcome = "idle"
    /\ activity_type = None
    /\ filters = EmptyDict
    /\ RenderIdle

\* DataProcessor(data)
Construct ==
    /\ phase = "new"
    /\ IF DataProcessorInitRaises(raw, is_production, downcasting)
       THEN /\ phase' = "raised"
            /\ UNCHANGED <<data, built>>
       ELSE /\ data' = DataProcessorInit(raw, is_production, downcasting)
            /\ built' = data'
            /\ phase' = "built"
    /\ UNCHANGED <<raw, is_production, downcasting, callVars, renderVars, extVars>>

\* process_data run again on the table it produced
Reprocess ==
    /\ phase = "built"
    /\ data' = process_data(data, downcasting)
    /\ phase' = "rerun"
    /\ UNCHANGED <<raw, is_production, downcasting, built, callVars, renderVars, extVars>>

NextNorm == Construct \/ Reprocess

SpecNorm == InitNorm /\ [][NextNorm]_vars

(***************************************************************************)
(* Properties of the normalization                                         *)
(***************************************************************************)
IsTextColumn(df, c) == df[c].dtype \in {"object", "category"} /\ c \notin date_columns

NoNaNIn(df) ==
    \A c \in DOMAIN df :
        /\ IsNumericDtype(df[c].dtype) => ~AnyNull(df[c].cells)
        /\ IsTextColumn(df, c) =>
              \A i \in 1..Len(df[c].cells) :
                  df[c].cells[i] \notin {Null, Str("nan"), Str("NaN"), Str("None")}

\* C6: in the table a DataProcessor holds after construction, no cell of a
\* numeric column is null and no cell of a text column is null or one of the
\* strings "nan", "NaN", "None", for every raw table, in the production and
\* in the non-production path
C6_NoNaN == phase = "built" => NoNaNIn(data)

\* the part of C6 the code keeps: the same, outside production
C6_NoNaNOutsideProduction == (phase = "built" /\ ~is_production) => NoNaNIn(data)

\* C7: process_data run on the table process_data produced yields that same
\* table: same columns, same dtypes and cell values
C7_Idempotent == phase = "rerun" => data = built

\* the part of C7 the code keeps: the same, when replace does not downcast
C7_IdempotentWithoutDowncast == (phase = "rerun" /\ ~downcasting) => data = built

\* C8 as stated: year is the calendar year of fecha_inspeccion where that is
\* a date, and null where it is null or was unparsable
C8_YearNullWhenDateNull ==
    (phase = "built" /\ "fecha_inspeccion" \in DOMAIN data) =>
        /\ "year" \in DOMAIN data
        /\ \A i \in 1..Len(data["fecha_inspeccion"].cells) :
              LET f == data["fecha_inspeccion"].cells[i]
                  y == data["year"].cells[i]
              IN IF f = Null THEN y = Null ELSE y = Num(f.v[1])

\* C8 amended: year is the calendar year of fecha_inspeccion where that is a
\* date, and 0 (not null) where it is null or was unparsable
C8_YearZeroWhenDateNull ==
    (phase = "built" /\ "fecha_inspeccion" \in DOMAIN data) =>
        /\ "year" \in DOMAIN data
        /\ Len(data["year"].cells) = Len(data["fecha_inspeccion"].cells)
        /\ \A i \in 1..Len(data["fecha_inspeccion"].cells) :
              LET f == data["fecha_inspeccion"].cells[i]
                  y == data["year"].cells[i]
              IN IF f = Null THEN y = Num(0) ELSE y = Num(f.v[1])

\* a built table with a dated row (year 2024), a row whose date was
\* unparsable and a row whose date was missing
C8_Witness ==
    /\ phase = "built"
    /\ "fecha_inspeccion" \in DOMAIN data
    /\ \E i, j, k \in 1..Len(raw["fecha_inspeccion"].cells) :
          /\ raw["fecha_inspeccion"].cells[i] = Str("2024-12-31 23:30")
          /\ data["year"].cells[i] = Num(2024)
          /\ raw["fecha_inspeccion"].cells[j] = Str("no-date")
          /\ data["fecha_inspeccion"].cells[j] = Null
          /\ raw["fecha_inspeccion"].cells[k] = Null
          /\ data["year"].cells[k] = Num(0)

\* the columns of the raw table that are null on every row
EmptyColumns(df) == {c \in DOMAIN df : AllNull(df[c].cells)}

NullOrUnparsable(cell) ==
    \/ cell = Null
    \/ cell.t = "str" /\ ParseNumber(cell.v) = Null

\* every date column holds timestamps and nulls only; every null or
\* unparsable cell of a numeric-indicator column has become 0
CellsDegraded(rawdf, df) ==
    /\ \A c \in DOMAIN df \cap date_columns :
          \A i \in 1..Len(df[c].cells) : df[c].cells[i].t \in {"ts", "null"}
    /\ \A c \in DOMAIN df \cap DOMAIN rawdf \cap critical_numeric_columns :
          \A i \in 1..Len(rawdf[c].cells) :
              NullOrUnparsable(rawdf[c].cells[i]) => df[c].cells[i] = Num(0)

\* C19: for every raw table the construction completes without error, its
\* date columns hold timestamps and nulls only, and the null or unparsable
\* cells of its numeric-indicator columns are 0
C19_MalformedCellsDegrade ==
    phase # "new" => phase # "raised" /\ CellsDegraded(raw, data)

\* the part of C19 the code keeps: the same, for the constructions that
\* complete
C19_CellsDegradeWhenBuilt ==
    phase = "built" => CellsDegraded(raw, data)

(***************************************************************************)
(* safe_dataframe, the bounded render guard.  Memory is counted in KB (the *)
(* code divides bytes by 1024 * 1024 on both sides of every comparison).   *)
(* A table is [is_none, rows, heavy, heavy_kb, light_kb]: its first        *)
(* `heavy` rows take heavy_kb each under memory_usage(deep=True), the      *)
(* others light_kb; is_none marks the argument None.                       *)
(***************************************************************************)
MaxThousands == 3

\* table_helpers.py:74
min_rows == 50
\* table_helpers.py:49
memory_floor_rows == 1000

Min(a, b) == IF a < b THEN a ELSE b
Max(a, b) == IF a > b THEN a ELSE b

\* len(df.head(n))
HeadRows(t, n) == Min(n, t.rows)

\* df.head(n).memory_usage(deep=True).sum()
MemoryKB(t, n) ==
    LET m == HeadRows(t, n)
    IN t.heavy_kb * Min(m, t.heavy) + t.light_kb * Max(0, m - t.heavy)

\* x > max_memory_mb * 0.90
OverMargin(kb, ceiling_kb) == 10 * kb > 9 * ceiling_kb

\* df is None or df.empty
IsEmpty(t) == t.is_none \/ t.rows = 0

\* table_helpers.py:43
IsTooLarge(t, rows_ceiling, ceiling_kb) ==
    t.rows > rows_ceiling \/ MemoryKB(t, t.rows) > ceiling_kb

\* table_helpers.py:47-52
InitialSafeRowCount(t, rows_ceiling, ceiling_kb) ==
    IF MemoryKB(t, t.rows) > ceiling_kb
    THEN Min(rows_ceiling,
             Max(memory_floor_rows, (ceiling_kb * t.rows) \div MemoryKB(t, t.rows)))
    ELSE rows_ceiling

\* mutant: the row count is multiplied by 1 instead of 0.75
ShrinkNot(n) == Max(min_rows, n)

\* table_helpers.py:78  max(min_rows, int(safe_row_count * 0.75))
Shrink(n) == Max(min_rows, (3 * n) \div 4)

\* table_helpers.py:76, the loop condition
LoopCondition(t, n, ceiling_kb) == OverMargin(MemoryKB(t, n), ceiling_kb) /\ n > min_rows

\* mutant: the summary is shown only when the row count is at the minimum
StillOverMarginAtMinimum(t, n, ceiling_kb) ==
    OverMargin(MemoryKB(t, n), ceiling_kb) /\ n = min_rows

\* mutant: the slice is shown whatever its size
StillOverMarginNever(t, n, ceiling_kb) == FALSE

\* table_helpers.py:83, the test after the loop
StillOverMargin(t, n, ceiling_kb) == OverMargin(MemoryKB(t, n), ceiling_kb)

TableShapes ==
    { [heavy |-> 0, heavy_kb |-> 1, light_kb |-> 1],
      [heavy |-> 0, heavy_kb |-> 40, light_kb |-> 40],
      [heavy |-> 30, heavy_kb |-> 2000, light_kb |-> 1],
      [heavy |-> 100, heavy_kb |-> 600, light_kb |-> 1],
      [heavy |-> 0, heavy_kb |-> 2000, light_kb |-> 2000] }

RowCounts == {0, 1, 40, 60, 5120} \cup {1000 * k + 500 : k \in 1..MaxThousands}

NoTable == [is_none |-> TRUE, rows |-> 0, heavy |-> 0, heavy_kb |-> 0, light_kb |-> 0]

DisplayTables ==
    {NoTable} \cup
    {[is_none |-> FALSE, rows |-> n, heavy |-> sh.heavy, heavy_kb |-> sh.heavy_kb,
      light_kb |-> sh.light_kb] : n \in RowCounts, sh \in TableShapes}

\* 1 MB and the default 50 MB
MemoryCeilingsKB == {1024, 51200}
RowCeilings == {10, 100, 2000, 50000}

InitRender ==
    /\ ExtIdle
    /\ table \in DisplayTables
    /\ max_rows \in RowCeilings
    /\ max_memory_kb \in MemoryCeilingsKB
    /\ pc = "start"
    /\ safe_row_count = 0
    /\ shown = "none"
    /\ shown_rows = 0
    /\ warned_rows = Unsaid
    /\ metric_rows = Unsaid
    /\ not_shown = Unsaid
    /\ data = None
    /\ view = None /\ outcome = "idle" /\ activity_type = None /\ filters = EmptyDict
    /\ raw = None /\ is_production = FALSE /\ downcasting = FALSE
    /\ phase = "built" /\ built = None

\* table_helpers.py:34-36
ShowNoData ==
    /\ pc = "start"
    /\ IsEmpty(table)
    /\ shown' = "info"
    /\ pc' = "done"
    /\ UNCHANGED <<table, max_rows, max_memory_kb, safe_row_count, shown_rows,
                   warned_rows, metric_rows, not_shown, data, callVars, normVars, extVars>>

\* table_helpers.py:122-130
ShowFull ==
    /\ pc = "start"
    /\ ~IsEmpty(table)
    /\ ~IsTooLarge(table, max_rows, max_memory_kb)
    /\ shown' = "full"
    /\ shown_rows' = table.rows
    /\ pc' = "done"
    /\ UNCHANGED <<table, max_rows, max_memory_kb, safe_row_count,
                   warned_rows, metric_rows, not_shown, data, callVars, normVars, extVars>>

\* table_helpers.py:45-74
BeginTruncation ==
    /\ pc = "start"
    /\ ~IsEmpty(table)
    /\ IsTooLarge(table, max_rows, max_memory_kb)
    /\ safe_row_count' = InitialSafeRowCount(table, max_rows, max_memory_kb)
    /\ warned_rows' = Said(safe_row_count')
    /\ metric_rows' = Said(safe_row_count')
    /\ pc' = "loop"
    /\ UNCHANGED <<table, max_rows, max_memory_kb, shown, shown_rows, not_shown,
                   data, callVars, normVars, extVars>>

\* table_helpers.py:76-80, one iteration
ShrinkStep ==
    /\ pc = "loop"
    /\ LoopCondition(table, safe_row_count, max_memory_kb)
    /\ safe_row_count' = Shrink(safe_row_count)
    /\ UNCHANGED <<table, max_rows, max_memory_kb, pc, shown, shown_rows,
                   warned_rows, metric_rows, not_shown, data, callVars, normVars, extVars>>

\* table_helpers.py:83-106
ShowSchema ==
    /\ pc = "loop"
    /\ ~LoopCondition(table, safe_row_count, max_memory_kb)
    /\ StillOverMargin(table, safe_row_count, max_memory_kb)
    /\ shown' = "schema"
    /\ pc' = "done"
    /\ UNCHANGED <<table, max_rows, max_memory_kb, safe_row_count, shown_rows,
                   warned_rows, metric_rows, not_shown, data, callVars, normVars, extVars>>

\* table_helpers.py:108-121
ShowSlice ==
    /\ pc = "loop"
    /\ ~LoopCondition(table, safe_row_count, max_memory_kb)
    /\ ~StillOverMargin(table, safe_row_count, max_memory_kb)
    /\ shown' = "slice"
    /\ shown_rows' = HeadRows(table, safe_row_count)
    /\ metric_rows' = Said(safe_row_count)
    /\ not_shown' = IF table.rows > max_rows THEN Said(table.rows - max_rows) ELSE Unsaid
    /\ pc' = "done"
    /\ UNCHANGED <<table, max_rows, max_memory_kb, safe_row_count, warned_rows,
                   data, callVars, normVars, extVars>>

NextRender ==
    ShowNoData \/ ShowFull \/ BeginTruncation \/ ShrinkStep \/ ShowSchema \/ ShowSlice

SpecRender == InitRender /\ [][NextRender]_vars

\* safe_dataframe is a straight-line synchronous call: a step that can be
\* taken is taken
SpecRenderRun == SpecRender /\ WF_vars(NextRender)

(***************************************************************************)
(* Properties of the render guard                                          *)
(***************************************************************************)
WasTooLarge == ~IsEmpty(table) /\ IsTooLarge(table, max_rows, max_memory_kb)

\* C9: whenever the table is over a ceiling and row data is displayed, the
\* displayed slice has estimated memory <= 0.9 * max_memory_mb
C9_SliceWithinMargin ==
    (pc = "done" /\ WasTooLarge /\ shown = "slice") =>
        10 * MemoryKB(table, shown_rows) <= 9 * max_memory_kb

\* the 200 MB table under the 50 MB ceiling: a truncated slice is shown
\* after the loop shrank the first estimate
C9_Witness ==
    /\ pc = "done" /\ shown = "slice"
    /\ MemoryKB(table, table.rows) = 204800
    /\ max_memory_kb = 51200
    /\ shown_rows < warned_rows.rows
    /\ shown_rows < table.rows
    /\ MemoryKB(table, shown_rows) <= 46080

\* C10: safe_dataframe terminates; each loop iteration strictly decreases
\* the row count; the loop ends only when the slice is within 90% of the
\* memory ceiling or the row count is at most the minimum of 50
C10_Terminates ==
    /\ <>(pc = "done")
    /\ [][(pc = "loop" /\ pc' = "loop") => safe_row_count' < safe_row_count]_vars
    /\ [][(pc = "loop" /\ pc' = "done") =>
            (~OverMargin(MemoryKB(table, safe_row_count), max_memory_kb)
             \/ safe_row_count <= min_rows)]_vars

\* a call that went through the loop at least twice and came down to the
\* minimum of 50 rows
C10_Witness ==
    /\ pc = "done"
    /\ safe_row_count = min_rows
    /\ WasTooLarge
    /\ warned_rows.rows > 2 * min_rows

(***************************************************************************)
(* CercoTab calculation routines (components/cerco_tab.py).  A view is     *)
(* [columns, rows]; a row has one field per column the routines read.  A   *)
(* float result is [t, n, d]: the number n / d, or NaN, or an infinity.    *)
(***************************************************************************)
MaxViewRows == 3

Ratio(n, d) == [t |-> "num", n |-> n, d |-> d]
Zero == Ratio(0, 1)
NaN == [t |-> "nan", n |-> 0, d |-> 1]
PosInf == [t |-> "inf", n |-> 1, d |-> 1]
NegInf == [t |-> "inf", n |-> -1, d |-> 1]

\* x * 100
Times100(x) == IF x.t = "num" THEN Ratio(100 * x.n, x.d) ELSE x

\* 100 - x
HundredMinus(x) ==
    CASE x.t = "num" -> Ratio(100 * x.d - x.n, x.d)
      [] x.t = "nan" -> NaN
      [] OTHER -> IF x.n > 0 THEN NegInf ELSE PosInf

\* a / b on pandas Series (numpy division: no exception on a zero divisor)
SeriesDiv(a, b) ==
    IF b # 0 THEN Ratio(a, b)
    ELSE IF a = 0 THEN NaN ELSE IF a > 0 THEN PosInf ELSE NegInf

\* Series.fillna(0) on one value
FillNaZero(x) == IF x.t = "nan" THEN Zero ELSE x

\* (n / d * 100) if d > 0 else 0
GuardedPct(n, d) == IF d > 0 THEN Times100(Ratio(n, d)) ELSE Zero

\* data[mask], len(...)
RowsWhere(rows, keep) == SelectSeq(rows, LAMBDA r : r.idx \in keep)
Idx(rows) == {rows[i].idx : i \in 1..Len(rows)}

\* atencion_vivienda_indicador.isin([1, 2, 3, 4])
InCerco(rows) ==
    {rows[i].idx : i \in {j \in 1..Len(rows) :
        rows[j].atencion_vivienda_indicador \in {Num(1), Num(2), Num(3), Num(4)}}}

\* atencion_vivienda_indicador == 1
Inspected(rows) ==
    {rows[i].idx : i \in {j \in 1..Len(rows) : rows[j].atencion_vivienda_indicador = Num(1)}}

\* viv_positiva == 1
Positive(rows) == {rows[i].idx : i \in {j \in 1..Len(rows) : rows[j].viv_positiva = 1}}

\* sum of an integer column
RECURSIVE SumRecuperada(_)
SumRecuperada(rows) ==
    IF rows = <<>> THEN 0 ELSE Head(rows).recuperada + SumRecuperada(Tail(rows))

RECURSIVE SumVivPositiva(_)
SumVivPositiva(rows) ==
    IF rows = <<>> THEN 0 ELSE Head(rows).viv_positiva + SumVivPositiva(Tail(rows))

\* Series.count(): the non-null cells
CountAtencion(rows) ==
    Cardinality({i \in 1..Len(rows) : rows[i].atencion_vivienda_indicador # Null})

\* data.empty
IsEmptyView(v) == v.rows = <<>> \/ v.columns = {}

\* pd.DataFrame() / {} : a result without entries
EmptyResult == [k \in {} |-> Zero]
IsEmptyResult(r) == DOMAIN r = {}

\* the rows of one group, and the distinct values of a grouping column
FacilityRows(rows, f) == SelectSeq(rows, LAMBDA r : r.localidad_eess = f)
Facilities(rows) == {rows[i].localidad_eess : i \in 1..Len(rows)}
DeptRows(rows, d) == SelectSeq(rows, LAMBDA r : r.departamento_x = d)
Departments(rows) == {rows[i].departamento_x : i \in 1..Len(rows)}
\* data[data['month_year'] == period]: a missing date (NaT) equals nothing
PeriodRows(rows, m) == SelectSeq(rows, LAMBDA r : r.dated /\ r.month = m)
KeepUndated(rows) == rows
\* dropna(subset=['fecha_inspeccion'])
DropUndated(rows) == SelectSeq(rows, LAMBDA r : r.dated)
Periods(rows) == {rows[i].month : i \in 1..Len(rows)}
EstablishmentRows(rows, e) == SelectSeq(rows, LAMBDA r : r.cod_renipress = e)
Establishments(rows) == {rows[i].cod_renipress : i \in 1..Len(rows)}
SectorRows(rows, x) == SelectSeq(rows, LAMBDA r : r.sector = x)
Sectors(rows) == {rows[i].sector : i \in 1..Len(rows)}
Blocks(rows) == {rows[i].codigo_manzana : i \in 1..Len(rows)}
Addresses(rows) == {rows[i].direccion : i \in 1..Len(rows)}

\* cerco_tab.py:715-719, 749-753, 773-777: the two counts of a group
TotalHouses(rows) == Cardinality(InCerco(rows))
PositiveHousesAnyAttention(rows) == Cardinality(Positive(rows))
PositiveHouses(rows) == Cardinality(Positive(rows) \cap Inspected(rows))

\* cerco_tab.py:722  ((total - positive) / total * 100) if total > 0 else 0
Effectiveness(rows) ==
    GuardedPct(TotalHouses(rows) - PositiveHouses(rows), TotalHouses(rows))

\* cerco_tab.py:725  min(10, (total_houses / max(1, positive_houses)) * 2)
InterventionScore(rows) ==
    LET d == Max(1, PositiveHouses(rows))
    IN IF 2 * TotalHouses(rows) > 10 * d THEN Ratio(10, 1)
       ELSE Ratio(2 * TotalHouses(rows), d)

\* cerco_tab.py:701-736
calculate_cerco_effectiveness(v) ==
    IF IsEmptyView(v) THEN EmptyResult
    ELSE [f \in Facilities(v.rows) |->
            LET fr == FacilityRows(v.rows, f)
            IN [cod_renipress |-> fr[1].cod_renipress,
                total_houses |-> TotalHouses(fr),
                positive_houses |-> PositiveHouses(fr),
                effectiveness_percentage |-> Effectiveness(fr),
                intervention_score |-> InterventionScore(fr)]]

\* cerco_tab.py:738-761
calculate_geographic_coverage(v) ==
    IF "departamento_x" \in v.columns
    THEN [d \in Departments(v.rows) |->
            LET dr == DeptRows(v.rows, d)
            IN [facilities |-> Cardinality(Facilities(dr)),
                houses |-> TotalHouses(dr),
                effectiveness |-> Effectiveness(dr)]]
    ELSE EmptyResult

\* cerco_tab.py:763-791
calculate_intervention_density(v) ==
    IF IsEmptyView(v) THEN EmptyResult
    ELSE [f \in Facilities(v.rows) |->
            LET fr == FacilityRows(v.rows, f)
            IN [intervention_density |->
                    Ratio(TotalHouses(fr), Max(1, Cardinality(Blocks(fr)))),
                effectiveness |-> Effectiveness(fr),
                total_houses |-> TotalHouses(fr)]]

\* mutant: the indicators are computed for an empty view too
calculate_cerco_indicators_Always(v) ==
    LET rows == v.rows
        unique_addresses == IF "dirección" \in v.columns
                            THEN Cardinality(Addresses(rows)) ELSE 1
    IN [detection_rate |-> GuardedPct(PositiveHouses(rows), Cardinality(Inspected(rows))),
        coverage_rate |-> GuardedPct(TotalHouses(rows), Len(rows)),
        avg_response_time |-> Zero,
        reintervention_rate |-> GuardedPct(Len(rows) - unique_addresses, unique_addresses)]

\* cerco_tab.py:793-832.  The views carry no _createdAt_x column, so
\* avg_response_time takes the else branch of line 813
calculate_cerco_indicators(v) ==
    IF IsEmptyView(v) THEN EmptyResult
    ELSE LET rows == v.rows
             unique_addresses == IF "dirección" \in v.columns
                                 THEN Cardinality(Addresses(rows)) ELSE 1
         IN [k \in {"detection_rate", "coverage_rate", "avg_response_time",
                    "reintervention_rate"} |->
              CASE k = "detection_rate" ->
                     GuardedPct(PositiveHouses(rows), Cardinality(Inspected(rows)))
                [] k = "coverage_rate" -> GuardedPct(TotalHouses(rows), Len(rows))
                [] k = "avg_response_time" -> Zero
                [] OTHER -> GuardedPct(Len(rows) - unique_addresses, unique_addresses)]

\* cerco_tab.py:834-867; line 839 adds the column month_year to the caller's
\* frame, the routine returns [out, view]
calculate_cerco_monthly_trends(v) ==
    IF "fecha_inspeccion" \notin v.columns
    THEN [out |-> EmptyResult, view |-> v]
    ELSE [out |-> [m \in Periods(v.rows) |->
                    LET pr == PeriodRows(v.rows, m)
                    IN [detections |-> PositiveHouses(pr),
                        effectiveness |-> Effectiveness(pr),
                        coverage |-> GuardedPct(TotalHouses(pr), Len(pr)),
                        response_time |-> Ratio(5, 1)]],
          view |-> [v EXCEPT !.columns = @ \cup {"month_year"}]]

\* the columns line 895-897 selects for the recovery details
recovery_detail_columns ==
    {"localidad_eess", "dirección", "fecha_inspeccion", "recuperacion_fecha",
     "recuperacion_usuario_asignado"}

\* cerco_tab.py:869-903.  recuperacion_fecha is NaT in every row of the
\* views, so avg_recovery_time takes the else branch of line 890.  The
\* routine returns [raised, out]
calculate_recovery_metrics(v) ==
    IF "recuperada" \notin v.columns THEN [raised |-> "no", out |-> EmptyResult]
    ELSE LET recovered_houses == SumRecuperada(v.rows)
             total_positive == Cardinality(Positive(v.rows))
             timed == {"recuperacion_fecha", "fecha_inspeccion"} \subseteq v.columns
             keys == {"recovered_houses", "recovery_rate"}
                     \cup (IF timed THEN {"avg_recovery_time"} ELSE {})
                     \cup (IF recovered_houses > 0 THEN {"recovery_details"} ELSE {})
         IN IF recovered_houses > 0 /\ ~(recovery_detail_columns \subseteq v.columns)
            THEN [raised |-> "KeyError", out |-> EmptyResult]
            ELSE [raised |-> "no",
                  out |-> [k \in keys |->
                    CASE k = "recovered_houses" -> Ratio(recovered_houses, 1)
                      [] k = "recovery_rate" -> GuardedPct(recovered_houses, total_positive)
                      [] k = "avg_recovery_time" -> Zero
                      [] OTHER -> Ratio(Cardinality({i \in 1..Len(v.rows) :
                                                      v.rows[i].recuperada = 1}), 1)]]

\* cerco_tab.py:1069-1125.  fecha_inspeccion is a date in every row of the
\* views, so dropna keeps them all; a missing column raises KeyError inside
\* the try and the except returns pd.DataFrame()
prepare_monthly_aedic_data(v) ==
    IF "fecha_inspeccion" \notin v.columns \/ "cod_renipress" \notin v.columns
    THEN EmptyResult
    ELSE IF IsEmptyView([v EXCEPT !.rows = DropUndated(@)]) THEN EmptyResult
    ELSE LET data_with_date == DropUndated(v.rows)
             groups == {<<data_with_date[i].cod_renipress, data_with_date[i].month>> :
                            i \in 1..Len(data_with_date)}
         IN [g \in groups |->
              LET mes_data == PeriodRows(EstablishmentRows(data_with_date, g[1]), g[2])
                  viviendas_inspeccionadas == Cardinality(Inspected(mes_data))
                  viviendas_positivas == PositiveHouses(mes_data)
              IN [viviendas_inspeccionadas |-> viviendas_inspeccionadas,
                  viviendas_positivas |-> viviendas_positivas,
                  indice_aedico |-> IF viviendas_inspeccionadas > 0
                                    THEN Times100(Ratio(viviendas_positivas,
                                                        viviendas_inspeccionadas))
                                    ELSE Zero]]

\* cerco_tab.py:1127-1163, the sector summary table of render_sector_analysis
sector_summary(v) ==
    IF "sector" \notin v.columns \/ v.rows = <<>> THEN EmptyResult
    ELSE [x \in Sectors(v.rows) |->
            LET sr == SectorRows(v.rows, x)
                positividad_pct ==
                    FillNaZero(Times100(SeriesDiv(SumVivPositiva(sr), CountAtencion(sr))))
            IN [atencion_vivienda_indicador |-> CountAtencion(sr),
                viv_positiva |-> SumVivPositiva(sr),
                positividad_pct |-> positividad_pct,
                effectiveness_pct |-> HundredMinus(positividad_pct)]]

\* Filtered views handed to the routines.  A row is one of the row kinds:
\* where it was inspected (establishment, month), its
\* atencion_vivienda_indicador (0, 1 or 2), viv_positiva and recuperada.
FullCercoColumns ==
    {"localidad_eess", "cod_renipress", "departamento_x", "sector", "dirección",
     "codigo_manzana", "fecha_inspeccion", "atencion_vivienda_indicador",
     "viv_positiva", "recuperada", "recuperacion_fecha",
     "recuperacion_usuario_asignado"}
CoreCercoColumns ==
    {"localidad_eess", "cod_renipress", "codigo_manzana",
     "atencion_vivienda_indicador", "viv_positiva", "recuperada"}

RowKinds == 0..35
\* the kinds of row whose fecha_inspeccion is NaT
UndatedRowKinds == 36..47

\* the cell of atencion_vivienda_indicador: an integer in a numeric column
\* (a missing cell was filled with 0, data_processor.py:174-175); in a column
\* that production made categorical (data_processor.py:60-68) the cells are
\* the strings read from the file and a missing cell stays null
AtencionCell(a, categorical) ==
    IF ~categorical THEN Num(a)
    ELSE CASE a = 0 -> Null [] a = 1 -> Str("1") [] OTHER -> Str("2")

\* a row of the view; dated is FALSE for a row whose fecha_inspeccion is NaT,
\* and month is the period of a dated row
CercoRow(k, i, categorical) ==
    LET undated == k \in UndatedRowKinds
        site == IF undated THEN 0 ELSE k % 3
        place == IF undated THEN k - 36 ELSE k \div 3
    IN [idx |-> i,
        localidad_eess |-> IF site = 2 THEN "E2" ELSE "E1",
        cod_renipress |-> IF site = 2 THEN 2 ELSE 1,
        departamento_x |-> IF site = 2 THEN "D2" ELSE "D1",
        sector |-> IF site = 2 THEN "S2" ELSE "S1",
        direccion |-> IF site = 2 THEN "B" ELSE "A",
        codigo_manzana |-> IF site = 2 THEN "M2" ELSE "M1",
        dated |-> ~undated,
        month |-> CASE undated -> 0 [] site = 1 -> 2 [] OTHER -> 1,
        atencion_vivienda_indicador |-> AtencionCell(place % 3, categorical),
        viv_positiva |-> (place \div 3) % 2,
        recuperada |-> (place \div 6) % 2]

\* the views up to the order of their rows
RECURSIVE KindSeqsFrom(_, _, _)
KindSeqsFrom(n, lowest, kinds) ==
    IF n = 0 THEN {<<>>}
    ELSE UNION {{<<k>> \o q : q \in KindSeqsFrom(n - 1, k, kinds)} :
                k \in {x \in kinds : x >= lowest}}
KindSeqs(n) == KindSeqsFrom(n, 0, RowKinds)
\* the views that may have rows without a date; the monthly routines do not
\* read recuperada, which is 0 in these rows
AedicRowKinds == {k \in RowKinds \cup UndatedRowKinds : CercoRow(k, 1, FALSE).recuperada = 0}
AedicKindSeqs(n) == KindSeqsFrom(n, 0, AedicRowKinds)

ColumnChoices ==
    {[columns |-> FullCercoColumns, categorical |-> FALSE],
     [columns |-> FullCercoColumns, categorical |-> TRUE],
     [columns |-> CoreCercoColumns, categorical |-> FALSE]}

CercoView(q, cs) ==
    [columns |-> cs.columns,
     rows |-> [i \in 1..Len(q) |-> CercoRow(q[i], i, cs.categorical)]]

\* the state outside the calculation routines
CoreIdle ==
    /\ data = None /\ view = None /\ outcome = "idle" /\ activity_type = None
    /\ filters = EmptyDict
    /\ raw = None /\ downcasting = FALSE
    /\ phase = "built" /\ built = None
    /\ RenderIdle

\* a view with a categorical column comes from a DataProcessor built in
\* production
InitCerco ==
    /\ CoreIdle
    /\ UnifyIdle
    /\ SessionIdle
    /\ UniqueIdle
    /\ HelperIdle
    /\ \E n \in 0..MaxViewRows : \E q \in KindSeqs(n) : \E cs \in ColumnChoices :
          /\ cerco_view = CercoView(q, cs)
          /\ is_production = cs.categorical
    /\ calc = "none"
    /\ result = None

CalcEffectiveness ==
    /\ calc = "none"
    /\ calc' = "calculate_cerco_effectiveness"
    /\ result' = [raised |-> "no", out |-> calculate_cerco_effectiveness(cerco_view)]
    /\ UNCHANGED <<cerco_view, data, callVars, normVars, renderVars, unifyVars, sessionVars,
                 uniqueVars, helperVars>>

CalcGeographicCoverage ==
    /\ calc = "none"
    /\ calc' = "calculate_geographic_coverage"
    /\ result' = [raised |-> "no", out |-> calculate_geographic_coverage(cerco_view)]
    /\ UNCHANGED <<cerco_view, data, callVars, normVars, renderVars, unifyVars, sessionVars,
                 uniqueVars, helperVars>>

CalcInterventionDensity ==
    /\ calc = "none"
    /\ calc' = "calculate_intervention_density"
    /\ result' = [raised |-> "no", out |-> calculate_intervention_density(cerco_view)]
    /\ UNCHANGED <<cerco_view, data, callVars, normVars, renderVars, unifyVars, sessionVars,
                 uniqueVars, helperVars>>

CalcIndicators ==
    /\ calc = "none"
    /\ calc' = "calculate_cerco_indicators"
    /\ result' = [raised |-> "no", out |-> calculate_cerco_indicators(cerco_view)]
    /\ UNCHANGED <<cerco_view, data, callVars, normVars, renderVars, unifyVars, sessionVars,
                 uniqueVars, helperVars>>

CalcMonthlyTrends ==
    /\ calc = "none"
    /\ calc' = "calculate_cerco_monthly_trends"
    /\ result' = [raised |-> "no", out |-> calculate_cerco_monthly_trends(cerco_view).out]
    /\ cerco_view' = calculate_cerco_monthly_trends(cerco_view).view
    /\ UNCHANGED <<data, callVars, normVars, renderVars, unifyVars, sessionVars,
                 uniqueVars, helperVars>>

CalcRecoveryMetrics ==
    /\ calc = "none"
    /\ calc' = "calculate_recovery_metrics"
    /\ result' = calculate_recovery_metrics(cerco_view)
    /\ UNCHANGED <<cerco_view, data, callVars, normVars, renderVars, unifyVars, sessionVars,
                 uniqueVars, helperVars>>

PrepareMonthlyAedic ==
    /\ calc = "none"
    /\ calc' = "_prepare_monthly_aedic_data"
    /\ result' = [raised |-> "no", out |-> prepare_monthly_aedic_data(cerco_view)]
    /\ UNCHANGED <<cerco_view, data, callVars, normVars, renderVars, unifyVars, sessionVars,
                 uniqueVars, helperVars>>

SectorAnalysis ==
    /\ calc = "none"
    /\ calc' = "render_sector_analysis"
    /\ result' = [raised |-> "no", out |-> sector_summary(cerco_view)]
    /\ UNCHANGED <<cerco_view, data, callVars, normVars, renderVars, unifyVars, sessionVars,
                 uniqueVars, helperVars>>

NextCerco ==
    \/ CalcEffectiveness \/ CalcGeographicCoverage \/ CalcInterventionDensity
    \/ CalcIndicators \/ CalcMonthlyTrends \/ CalcRecoveryMetrics
    \/ PrepareMonthlyAedic \/ SectorAnalysis

SpecCerco == InitCerco /\ [][NextCerco]_vars

\* the two monthly routines on views that may have rows without a date
InitAedic ==
    /\ CoreIdle
    /\ UnifyIdle
    /\ SessionIdle
    /\ UniqueIdle
    /\ HelperIdle
    /\ \E n \in 0..MaxViewRows : \E q \in AedicKindSeqs(n) : \E cs \in ColumnChoices :
          /\ cerco_view = CercoView(q, cs)
          /\ is_production = cs.categorical
    /\ calc = "none"
    /\ result = None

NextAedic == CalcMonthlyTrends \/ PrepareMonthlyAedic

SpecAedic == InitAedic /\ [][NextAedic]_vars

(***************************************************************************)
(* Properties of the calculation routines                                  *)
(***************************************************************************)
Computed(name) == calc = name /\ result.raised = "no"

\* a float in the closed interval [0, 100]
InRange(x) == x.t = "num" /\ 0 <= x.n /\ x.n <= 100 * x.d

\* exactly 0
IsZero(x) == x.t = "num" /\ x.n = 0

\* C11: every percentage or index the Cerco calculations compute lies in
\* [0, 100] and is never negative or NaN
C11_PercentagesBounded ==
    /\ Computed("calculate_cerco_effectiveness") =>
         \A f \in DOMAIN result.out : InRange(result.out[f].effectiveness_percentage)
    /\ Computed("calculate_geographic_coverage") =>
         \A d \in DOMAIN result.out : InRange(result.out[d].effectiveness)
    /\ Computed("calculate_cerco_indicators") =>
         \A k \in DOMAIN result.out \cap {"detection_rate", "coverage_rate",
                                          "reintervention_rate"} :
            InRange(result.out[k])
    /\ Computed("calculate_recovery_metrics") =>
         \A k \in DOMAIN result.out \cap {"recovery_rate"} : InRange(result.out[k])
    /\ Computed("calculate_cerco_monthly_trends") =>
         \A m \in DOMAIN result.out :
            InRange(result.out[m].effectiveness) /\ InRange(result.out[m].coverage)
    /\ Computed("_prepare_monthly_aedic_data") =>
         \A g \in DOMAIN result.out : InRange(result.out[g].indice_aedico)
    /\ Computed("render_sector_analysis") =>
         \A x \in DOMAIN result.out :
            InRange(result.out[x].positividad_pct) /\ InRange(result.out[x].effectiveness_pct)

\* the part of C11 the code keeps: the effectiveness, detection, coverage
\* and aedic figures, whose numerator counts a subset of the denominator's rows
C11_SubsetRatiosBounded ==
    /\ Computed("calculate_cerco_effectiveness") =>
         \A f \in DOMAIN result.out : InRange(result.out[f].effectiveness_percentage)
    /\ Computed("calculate_geographic_coverage") =>
         \A d \in DOMAIN result.out : InRange(result.out[d].effectiveness)
    /\ Computed("calculate_cerco_indicators") =>
         \A k \in DOMAIN result.out \cap {"detection_rate", "coverage_rate"} :
            InRange(result.out[k])
    /\ Computed("calculate_cerco_monthly_trends") =>
         \A m \in DOMAIN result.out :
            InRange(result.out[m].effectiveness) /\ InRange(result.out[m].coverage)
    /\ Computed("_prepare_monthly_aedic_data") =>
         \A g \in DOMAIN result.out : InRange(result.out[g].indice_aedico)

\* C12: in every percentage formula, a denominator of 0 gives exactly 0,
\* never NaN, never an infinity, never an exception
C12_ZeroDenominatorGivesZero ==
    /\ calc # "none" => result.raised \in {"no", "KeyError"}
    /\ Computed("calculate_cerco_effectiveness") =>
         \A f \in DOMAIN result.out :
            result.out[f].total_houses = 0 => IsZero(result.out[f].effectiveness_percentage)
    /\ Computed("calculate_geographic_coverage") =>
         \A d \in DOMAIN result.out :
            result.out[d].houses = 0 => IsZero(result.out[d].effectiveness)
    /\ (Computed("calculate_cerco_indicators") /\ ~IsEmptyResult(result.out)) =>
         (Inspected(cerco_view.rows) = {} => IsZero(result.out["detection_rate"]))
    /\ (Computed("calculate_recovery_metrics") /\ ~IsEmptyResult(result.out)) =>
         (Positive(cerco_view.rows) = {} => IsZero(result.out["recovery_rate"]))
    /\ Computed("calculate_cerco_monthly_trends") =>
         \A m \in DOMAIN result.out :
            TotalHouses(PeriodRows(cerco_view.rows, m)) = 0 =>
                IsZero(result.out[m].effectiveness)
    /\ Computed("_prepare_monthly_aedic_data") =>
         \A g \in DOMAIN result.out :
            result.out[g].viviendas_inspeccionadas = 0 => IsZero(result.out[g].indice_aedico)
    /\ Computed("render_sector_analysis") =>
         \A x \in DOMAIN result.out :
            result.out[x].atencion_vivienda_indicador = 0 =>
                IsZero(result.out[x].positividad_pct)

\* the part of C12 the code keeps: the scalar formulas, guarded by a
\* conditional expression
C12_ScalarFormulasGuarded ==
    /\ Computed("calculate_cerco_effectiveness") =>
         \A f \in DOMAIN result.out :
            result.out[f].total_houses = 0 => IsZero(result.out[f].effectiveness_percentage)
    /\ (Computed("calculate_cerco_indicators") /\ ~IsEmptyResult(result.out)) =>
         (Inspected(cerco_view.rows) = {} => IsZero(result.out["detection_rate"]))
    /\ (Computed("calculate_recovery_metrics") /\ ~IsEmptyResult(result.out)) =>
         (Positive(cerco_view.rows) = {} => IsZero(result.out["recovery_rate"]))

SixRoutines ==
    {"calculate_cerco_effectiveness", "calculate_geographic_coverage",
     "calculate_intervention_density", "calculate_cerco_indicators",
     "calculate_cerco_monthly_trends", "_prepare_monthly_aedic_data"}

\* C17: each of the six calculation routines called on a view with zero
\* rows returns an empty result (empty table or empty mapping) and does not
\* raise
C17_EmptyViewEmptyResult ==
    (calc \in SixRoutines /\ cerco_view.rows = <<>>) =>
        result.raised = "no" /\ IsEmptyResult(result.out)

\* calculate_cerco_indicators returned {} for a view that has its columns
\* and no row
C17_Witness ==
    /\ calc = "calculate_cerco_indicators"
    /\ cerco_view.rows = <<>>
    /\ cerco_view.columns = FullCercoColumns
    /\ result.raised = "no"
    /\ IsEmptyResult(result.out)

(***************************************************************************)
(* SectorSimilarityDetector (utils/sector_similarity.py) and the sector    *)
(* part of FilterComponent.render_filters.  A dict that is walked in       *)
(* insertion order is a sequence of [key, group] items.  Strings cannot be *)
(* taken apart here, so the string functions are given by their values on  *)
(* the labels that occur.                                                  *)
(***************************************************************************)
MaxUnifyRows == 4

\* self.similarity_threshold (0.8), in thousandths
similarity_threshold == 800

Blank == ""
\* the sector labels of the tables the interface is rendered for
UnifyLabels == {"SAN JUAN", "san  juan.", "SAN JU", "SANTA ROSA"}

\* len(s)
StrLen(x) ==
    CASE x = "SAN JUAN" -> 8
      [] x = "san  juan." -> 10
      [] x = "SAN JU" -> 6
      [] x = "SAN JUANAS" -> 10
      [] x = "SANTA ROSA" -> 10
      [] x = " CENTRO " -> 8
      [] x = "  " -> 2
      [] OTHER -> 0

\* s.strip()
Strip(x) ==
    CASE x = " CENTRO " -> "CENTRO"
      [] x = "  " -> ""
      [] OTHER -> x

\* sector_similarity.py:22-36: strip, upper, drop punctuation, collapse spaces
normalize_sector_name(x) ==
    CASE x = "san  juan." -> "SAN JUAN"
      [] OTHER -> x

\* SequenceMatcher(None, a, b).ratio() in thousandths (rounded down), on
\* the normalized names that occur
SequenceMatcherRatio(a, b) ==
    CASE {a, b} = {"SAN JU", "SAN JUAN"} -> 857
      [] {a, b} = {"SAN JU", "SAN JUANAS"} -> 750
      [] {a, b} = {"SAN JU", "SANTA ROSA"} -> 500
      [] {a, b} = {"SAN JUAN", "SAN JUANAS"} -> 888
      [] a = "SAN JUAN" /\ b = "SANTA ROSA" -> 555
      [] a = "SANTA ROSA" /\ b = "SAN JUAN" -> 444
      [] {a, b} = {"SAN JUANAS", "SANTA ROSA"} -> 500
      [] OTHER -> 0

\* sector_similarity.py:38-49
calculate_similarity(sector1, sector2) ==
    IF sector1 = Blank \/ sector2 = Blank THEN 0
    ELSE IF normalize_sector_name(sector1) = normalize_sector_name(sector2) THEN 1000
    ELSE SequenceMatcherRatio(normalize_sector_name(sector1),
                              normalize_sector_name(sector2))

\* set(seq)
Elems(q) == {q[i] : i \in 1..Len(q)}

\* sector_similarity.py:64: the labels that are not null and not blank
ValidSectors(sectors_list) ==
    SelectSeq(sectors_list, LAMBDA x : x # None /\ Strip(x) # "")

\* mutant: a label joins when it is similar to the member added last
RECURSIVE AbsorbChained(_, _, _, _, _)
AbsorbChained(valid, sector1, j, group, processed) ==
    IF j > Len(valid) THEN [group |-> group, processed |-> processed]
    ELSE IF valid[j] \in processed
         THEN AbsorbChained(valid, sector1, j + 1, group, processed)
    ELSE IF calculate_similarity(group[Len(group)], valid[j]) >= similarity_threshold
         THEN AbsorbChained(valid, sector1, j + 1, Append(group, valid[j]),
                            processed \cup {valid[j]})
    ELSE AbsorbChained(valid, sector1, j + 1, group, processed)

\* mutant: a label that is in a group already may join another one
RECURSIVE AbsorbProcessed(_, _, _, _, _)
AbsorbProcessed(valid, sector1, j, group, processed) ==
    IF j > Len(valid) THEN [group |-> group, processed |-> processed]
    ELSE IF calculate_similarity(sector1, valid[j]) >= similarity_threshold
         THEN AbsorbProcessed(valid, sector1, j + 1, Append(group, valid[j]),
                              processed \cup {valid[j]})
    ELSE AbsorbProcessed(valid, sector1, j + 1, group, processed)

\* sector_similarity.py:81-89, the inner loop from position j on:
\* [group, processed]
RECURSIVE Absorb(_, _, _, _, _)
Absorb(valid, sector1, j, group, processed) ==
    IF j > Len(valid) THEN [group |-> group, processed |-> processed]
    ELSE IF valid[j] \in processed
         THEN Absorb(valid, sector1, j + 1, group, processed)
    ELSE IF calculate_similarity(sector1, valid[j]) >= similarity_threshold
         THEN Absorb(valid, sector1, j + 1, Append(group, valid[j]),
                     processed \cup {valid[j]})
    ELSE Absorb(valid, sector1, j + 1, group, processed)

\* mutant: the last member of minimal length
MinByLenLast(group) ==
    LET shortest == CHOOSE i \in 1..Len(group) :
            /\ \A j \in 1..Len(group) : StrLen(group[i]) <= StrLen(group[j])
            /\ \A j \in (i + 1)..Len(group) : StrLen(group[j]) > StrLen(group[i])
    IN group[shortest]

\* min(group, key=len): the first member of minimal length
MinByLen(group) ==
    LET shortest == CHOOSE i \in 1..Len(group) :
            /\ \A j \in 1..Len(group) : StrLen(group[i]) <= StrLen(group[j])
            /\ \A j \in 1..(i - 1) : StrLen(group[j]) > StrLen(group[i])
    IN group[shortest]

\* similar_groups[key] = group on a dict kept in insertion order
DictPut(items, key, group) ==
    IF \E i \in 1..Len(items) : items[i].key = key
    THEN [i \in 1..Len(items) |->
            IF items[i].key = key THEN [key |-> key, group |-> group] ELSE items[i]]
    ELSE Append(items, [key |-> key, group |-> group])

\* sector_similarity.py:74-95, the outer loop from position i on
RECURSIVE Cluster(_, _, _, _)
Cluster(valid, i, processed, items) ==
    IF i > Len(valid) THEN items
    ELSE IF valid[i] \in processed THEN Cluster(valid, i + 1, processed, items)
    ELSE LET a == Absorb(valid, valid[i], i + 1, <<valid[i]>>, processed \cup {valid[i]})
         IN Cluster(valid, i + 1, a.processed,
                    IF Len(a.group) > 1
                    THEN DictPut(items, MinByLen(a.group), a.group)
                    ELSE items)

\* sector_similarity.py:51-97
find_similar_sectors(sectors_list) ==
    IF sectors_list = <<>> THEN <<>>
    ELSE IF Len(ValidSectors(sectors_list)) < 2 THEN <<>>
    ELSE Cluster(ValidSectors(sectors_list), 1, {}, <<>>)

\* Series.unique().tolist(): the distinct labels in order of first appearance
RECURSIVE UniqueInOrder(_)
UniqueInOrder(q) ==
    IF q = <<>> THEN <<>>
    ELSE LET front == UniqueInOrder(SubSeq(q, 1, Len(q) - 1))
         IN IF q[Len(q)] \in Elems(front) THEN front ELSE Append(front, q[Len(q)])

\* mutant: the labels of the whole table are compared, whatever the province
ProvinceSectorsPooled(df, p) ==
    UniqueInOrder([i \in 1..Len(df.rows) |-> df.rows[i].sector])

\* sector_similarity.py:115-117: the labels of one province group
ProvinceSectors(df, p) ==
    LET rs == SelectSeq(df.rows, LAMBDA r : r.nombre_prov = p)
    IN UniqueInOrder([i \in 1..Len(rs) |-> rs[i].sector])

\* sector_similarity.py:99-132; the result maps a province to its items
find_similar_sectors_by_province(df) ==
    IF df.rows = <<>> \/ "sector" \notin df.columns \/ "nombre_prov" \notin df.columns
    THEN EmptyDict
    ELSE LET provs == {df.rows[i].nombre_prov : i \in 1..Len(df.rows)}
             listed == {p \in provs :
                          /\ Len(ProvinceSectors(df, p)) >= 2
                          /\ find_similar_sectors(ProvinceSectors(df, p)) # <<>>}
         IN [p \in listed |-> find_similar_sectors(ProvinceSectors(df, p))]

\* the widgets of one group: the checkbox, the selectbox (0 is
\* "Personalizado", k the k-th variant) and the text input
DefaultChoice(item) == [unify |-> FALSE, option |-> 1, text |-> item.key]

ChoiceSet(item) ==
    {DefaultChoice(item)}
    \cup {[unify |-> TRUE, option |-> k, text |-> item.key] : k \in 1..Len(item.group)}
    \cup {[unify |-> TRUE, option |-> 0, text |-> t] :
            t \in {item.key, "", "  ", " CENTRO "}}

\* sector_similarity.py:179-196
UnifiedName(item, choice) ==
    IF choice.option = 0 THEN choice.text ELSE item.group[choice.option]

\* dict.update on a mapping
Update(f, g) == [k \in DOMAIN f \cup DOMAIN g |-> IF k \in DOMAIN g THEN g[k] ELSE f[k]]

\* mutant: the checkbox is not consulted
GroupMappingAlways(item, choice) ==
    IF Strip(UnifiedName(item, choice)) # ""
    THEN [v \in Elems(item.group) |-> Strip(UnifiedName(item, choice))]
    ELSE EmptyDict

\* sector_similarity.py:188-201: the entries one group adds
GroupMapping(item, choice) ==
    IF choice.unify /\ UnifiedName(item, choice) # ""
                    /\ Strip(UnifiedName(item, choice)) # ""
    THEN [v \in Elems(item.group) |-> Strip(UnifiedName(item, choice))]
    ELSE EmptyDict

\* sector_similarity.py:160-203: province_mapping over the groups 1..n
RECURSIVE ProvinceMapping(_, _, _, _)
ProvinceMapping(p, items, widget, n) ==
    IF n = 0 THEN EmptyDict
    ELSE Update(ProvinceMapping(p, items, widget, n - 1),
                GroupMapping(items[n], widget[<<p, n>>]))

\* sector_similarity.py:134-208
render_sector_unification_interface_by_province(groups, widget) ==
    LET kept == {p \in DOMAIN groups :
                    /\ groups[p] # <<>>
                    /\ ProvinceMapping(p, groups[p], widget, Len(groups[p])) # EmptyDict}
    IN [p \in kept |-> ProvinceMapping(p, groups[p], widget, Len(groups[p]))]

\* the groups the interface lists, and the widget values a user can set
GroupIds(groups) == UNION {{<<p, i>> : i \in 1..Len(groups[p])} : p \in DOMAIN groups}

WidgetValues(groups) ==
    LET ids == GroupIds(groups)
        every == UNION {ChoiceSet(groups[g[1]][g[2]]) : g \in ids}
    IN {w \in [ids -> every] : \A g \in ids : w[g] \in ChoiceSet(groups[g[1]][g[2]])}

\* filters.py:72-122 with the sector selectbox left on 'Todos'
SectorFilters(groups, widget) ==
    LET m == IF groups # EmptyDict
             THEN render_sector_unification_interface_by_province(groups, widget)
             ELSE EmptyDict
    IN IF m # EmptyDict THEN [k \in {ByProvinceKey} |-> m] ELSE EmptyDict

\* the canonical tables the interface is rendered for: rows in file order,
\* each a province and a sector label
UnifyRow(i, p, x) ==
    MkRow(i, [nombre_prov |-> p, sector |-> x, tipoActividadInspeccion |-> "Cerco",
              viv_positiva |-> 0])

UnifyTable(c) ==
    [columns |-> AllColumns,
     rows |-> [i \in 1..Len(c) |-> UnifyRow(i, c[i][1], c[i][2])]]

InitUnify ==
    /\ CercoIdle
    /\ RenderIdle
    /\ SessionIdle
    /\ UniqueIdle
    /\ HelperIdle
    /\ raw = None /\ is_production = FALSE /\ downcasting = FALSE
    /\ phase = "built" /\ built = None
    /\ \E n \in 0..MaxUnifyRows : \E c \in [1..n -> Provinces \X UnifyLabels] :
          data = UnifyTable(c)
    /\ view = None /\ outcome = "idle" /\ activity_type = None /\ filters = EmptyDict
    /\ ui = "start"
    /\ similar_groups = None
    /\ choices = None
    /\ unification_mapping_by_province = None

\* filters.py:74-76
FindSimilar ==
    /\ ui = "start"
    /\ ui' = "detected"
    /\ similar_groups' = find_similar_sectors_by_province(data)
    /\ UNCHANGED <<choices, unification_mapping_by_province, data, callVars, normVars,
                   renderVars, cercoVars,
                   sessionVars, uniqueVars, helperVars>>

\* filters.py:82-119 and cerco_tab.py:24-27: the interface is rendered with
\* the widget values the user set, the filter set is built and handed to
\* get_filtered_data
RenderUnification ==
    /\ ui = "detected"
    /\ ui' = "rendered"
    /\ \E w \in WidgetValues(similar_groups) :
          /\ choices' = w
          /\ unification_mapping_by_province' =
                IF similar_groups # EmptyDict
                THEN render_sector_unification_interface_by_province(similar_groups, w)
                ELSE EmptyDict
          /\ filters' = SectorFilters(similar_groups, w)
    /\ activity_type' = "cerco"
    /\ outcome' = "calling"
    /\ UNCHANGED <<similar_groups, view, data, normVars, renderVars, cercoVars,
                   sessionVars, uniqueVars, helperVars>>

NextUnify == FindSimilar \/ RenderUnification \/ GetFilteredData

SpecUnify == InitUnify /\ [][NextUnify]_vars

(***************************************************************************)
(* Properties of the unification interface                                 *)
(***************************************************************************)
Listed == GroupIds(similar_groups)
ListedGroup(g) == similar_groups[g[1]][g[2]]
OccursIn(p, x) ==
    \E i \in 1..Len(data.rows) : data.rows[i].nombre_prov = p /\ data.rows[i].sector = x

\* C13: the by-province mapping has an entry for a label only if the label
\* is a variant of a listed group whose checkbox is ticked and whose unified
\* name is not blank; with no checkbox ticked the mapping is empty, the
\* filter set has no unification entry and get_filtered_data returns every
\* sector label unchanged
C13_UnificationOptIn ==
    ui = "rendered" =>
      /\ \A p \in DOMAIN unification_mapping_by_province :
           \A x \in DOMAIN unification_mapping_by_province[p] :
              \E g \in Listed :
                 /\ g[1] = p
                 /\ x \in Elems(ListedGroup(g).group)
                 /\ choices[g].unify
                 /\ Strip(UnifiedName(ListedGroup(g), choices[g])) # ""
      /\ (\A g \in Listed : ~choices[g].unify) =>
           /\ unification_mapping_by_province = EmptyDict
           /\ DOMAIN filters \cap {ByProvinceKey, FlatKey} = {}
           /\ outcome = "returned" =>
                /\ Len(view.rows) = Len(data.rows)
                /\ \A i \in 1..Len(data.rows) : view.rows[i].sector = data.rows[i].sector

\* two groups are listed, the user ticked one and left the other: the
\* mapping holds the variants of the ticked group only, and the call returned
C13_Witness ==
    /\ ui = "rendered"
    /\ outcome = "returned"
    /\ \E g1, g2 \in Listed :
          /\ choices[g1].unify
          /\ ~choices[g2].unify
          /\ DOMAIN unification_mapping_by_province = {g1[1]}
          /\ g2[1] # g1[1]
    /\ \E i \in 1..Len(data.rows) : view.rows[i].sector # data.rows[i].sector

\* C14: every group listed under province P holds only labels that occur in
\* a row of province P, so two labels that never occur in the same province
\* are never in one group
C14_NoCrossProvinceGrouping ==
    ui \in {"detected", "rendered"} =>
      \A g \in Listed :
         /\ \A x \in Elems(ListedGroup(g).group) : OccursIn(g[1], x)
         /\ \A x, y \in Elems(ListedGroup(g).group) :
               \E p \in Provinces : OccursIn(p, x) /\ OccursIn(p, y)

\* LIMA lists a group, and a label that occurs in CUSCO only is similar to
\* the group's key without being a member
C14_Witness ==
    /\ ui = "detected"
    /\ \E g \in Listed :
          /\ g[1] = "LIMA"
          /\ \E i \in 1..Len(data.rows) :
                /\ data.rows[i].nombre_prov = "CUSCO"
                /\ ~OccursIn("LIMA", data.rows[i].sector)
                /\ calculate_similarity(ListedGroup(g).key, data.rows[i].sector)
                      >= similarity_threshold
                /\ data.rows[i].sector \notin Elems(ListedGroup(g).group)

(***************************************************************************)
(* get_filtered_data on a table without the activity-type column           *)
(***************************************************************************)
CallEnded == outcome \in {"returned", "KeyError"}

\* C15: get_filtered_data with a non-empty activity_type on a table that
\* lacks tipoActividadInspeccion does not raise: it returns a view
C15_MissingActivityColumnRecovered ==
    (CallEnded /\ activity_type # None /\ activity_type # ""
        /\ "tipoActividadInspeccion" \notin data.columns)
    => outcome = "returned"

(***************************************************************************)
(* app.py main(): what one script run does with the uploaded file.         *)
(* Streamlit runs main() again on every widget interaction; the            *)
(* file_uploader widget keeps returning its file until the user removes    *)
(* it.  The files are readable, non-empty CSVs of at most 150MB.           *)
(***************************************************************************)
MaxUploads == 2
MaxConstructions == 8

\* DataProcessor(data) on the table read from file f; __init__ runs
\* process_data (data_processor.py:11-13)
DataProcessorBuilt(cons, f) == [cons EXCEPT ![f] = @ + 1]

\* app.py:698-702; the url_data and app_storage_data keys are never stored
should_process(local_file) == local_file # None

\* app.py:640-675: the "load from URL" button downloaded file f in this run
UrlButtonHandler(f, ss, cons) ==
    [local_file |-> "url_upload",
     session_state |-> [data |-> f, data_processor |-> f],
     constructions |-> DataProcessorBuilt(cons, f)]

\* app.py:704-854: the processing block of main()
ProcessingBlock(local_file, ss, cons) ==
    IF ~should_process(local_file)
    THEN [session_state |-> ss, constructions |-> cons]
    ELSE LET f == IF local_file = "url_upload" THEN ss.data ELSE local_file
         IN IF f = None
            THEN [session_state |-> ss, constructions |-> cons]
            ELSE \* line 837, then lines 850-854 after apply_housing_totals_to_data
                 [session_state |-> [data |-> f, data_processor |-> f],
                  constructions |->
                      DataProcessorBuilt(DataProcessorBuilt(cons, f), f)]

InitSession ==
    /\ data = None /\ view = None /\ outcome = "idle" /\ activity_type = None
    /\ filters = EmptyDict
    /\ raw = None /\ is_production = FALSE /\ downcasting = FALSE
    /\ phase = "built" /\ built = None
    /\ RenderIdle
    /\ CercoIdle
    /\ UnifyIdle
    /\ UniqueIdle
    /\ HelperIdle
    /\ SessionIdle

\* the user puts file f into the uploader; the script runs
UploadFile ==
    \E f \in Files :
       /\ uploaded_file # f
       /\ uploads[f] < MaxUploads
       /\ constructions[f] + 2 <= MaxConstructions
       /\ uploaded_file' = f
       /\ uploads' = [uploads EXCEPT ![f] = @ + 1]
       /\ LET after == ProcessingBlock(f, session_state, constructions)
          IN /\ session_state' = after.session_state
             /\ constructions' = after.constructions
       /\ UNCHANGED <<data, callVars, normVars, renderVars, cercoVars, unifyVars,
                      uniqueVars, helperVars>>

\* the user clicks the URL button and file f is downloaded; the script runs
LoadFromUrl ==
    \E f \in Files :
       /\ uploads[f] < MaxUploads
       /\ constructions[f] + 3 <= MaxConstructions
       /\ uploads' = [uploads EXCEPT ![f] = @ + 1]
       /\ LET clicked == UrlButtonHandler(f, session_state, constructions)
              after == ProcessingBlock(clicked.local_file, clicked.session_state,
                                       clicked.constructions)
          IN /\ session_state' = after.session_state
             /\ constructions' = after.constructions
       /\ UNCHANGED <<uploaded_file, data, callVars, normVars, renderVars, cercoVars,
                      unifyVars, uniqueVars, helperVars>>

\* the user changes any other widget (a filter, a tab): the script runs with
\* the uploader as it is
Interact ==
    /\ session_state.data # None
    /\ uploaded_file # None => constructions[uploaded_file] + 2 <= MaxConstructions
    /\ LET after == ProcessingBlock(uploaded_file, session_state, constructions)
       IN /\ session_state' = after.session_state
          /\ constructions' = after.constructions
    /\ UNCHANGED <<uploaded_file, uploads, data, callVars, normVars, renderVars,
                   cercoVars, unifyVars, uniqueVars, helperVars>>

\* the user removes the file from the uploader; the script runs
RemoveFile ==
    /\ uploaded_file # None
    /\ uploaded_file' = None
    /\ LET after == ProcessingBlock(None, session_state, constructions)
       IN /\ session_state' = after.session_state
          /\ constructions' = after.constructions
    /\ UNCHANGED <<uploads, data, callVars, normVars, renderVars, cercoVars,
                   unifyVars, uniqueVars, helperVars>>

NextSession == UploadFile \/ LoadFromUrl \/ Interact \/ RemoveFile

SpecSession == InitSession /\ [][NextSession]_vars

\* C16: over any sequence of reruns, the canonical table of a file is built
\* exactly once per upload of that file
C16_BuiltOncePerUpload ==
    \A f \in Files : constructions[f] = uploads[f]

\* what does hold: a rerun with an empty uploader builds nothing
C16_EmptyUploaderBuildsNothing ==
    [][uploaded_file' = None /\ uploaded_file = None /\ uploads' = uploads
          => constructions' = constructions]_vars

(***************************************************************************)
(* DataProcessor.get_unique_values.  self.data is held column by column,   *)
(* as in process_data; a text column of the canonical table holds strings  *)
(* (and nulls where production made it categorical), a numeric column      *)
(* holds numbers.                                                          *)
(***************************************************************************)
MaxUniqueCells == 3

UniqueTextCellSeq == <<Null, Str(""), Str("10"), Str("9"), Str("2.5"), Str("1.2.3"),
                       Str("ZETA"), Str("ALFA")>>
UniqueNumCellSeq == <<Num(0), Num(2023), Num(2024)>>

\* str(x).replace('.', '').isdigit(); str of the float 2023.0 is "2023.0"
DigitsWithoutDots(cell) ==
    CASE cell.t = "num" -> cell.v >= 0
      [] cell.t = "str" -> cell.v \in {"10", "9", "2.5", "1.2.3"}
      [] OTHER -> FALSE

\* float(x) raises ValueError
FloatRaises(cell) == cell = Str("1.2.3")

\* float(x), in tenths
FloatTenths(cell) ==
    CASE cell.t = "num" -> 10 * cell.v
      [] cell = Str("10") -> 100
      [] cell = Str("9") -> 90
      [] cell = Str("2.5") -> 25
      [] OTHER -> 0

\* the key of line 248: <<0, float(x)>> for a finite key, <<1, 0>> for
\* float('inf')
NumericKey(cell) ==
    IF DigitsWithoutDots(cell) THEN <<0, FloatTenths(cell)>> ELSE <<1, 0>>

\* the place of str(x) in the order of Python strings
StrKey(cell) ==
    CASE cell = Str("") -> <<0, 0>>
      [] cell = Str("1.2.3") -> <<0, 1>>
      [] cell = Str("10") -> <<0, 2>>
      [] cell = Str("2.5") -> <<0, 3>>
      [] cell = Str("9") -> <<0, 4>>
      [] cell = Str("ALFA") -> <<0, 5>>
      [] cell = Str("ZETA") -> <<0, 6>>

KeyLessEq(k1, k2) == k1[1] < k2[1] \/ (k1[1] = k2[1] /\ k1[2] <= k2[2])

\* insertion of x into a sorted list, after the items whose key is not greater
RECURSIVE InsertByKey(_, _, _)
InsertByKey(q, x, key) ==
    IF q = <<>> THEN <<x>>
    ELSE IF KeyLessEq(key[q[Len(q)]], key[x]) THEN Append(q, x)
    ELSE Append(InsertByKey(SubSeq(q, 1, Len(q) - 1), x, key), q[Len(q)])

\* sorted(q, key=...): a stable sort, items of equal key keep their order
RECURSIVE Sorted(_, _)
Sorted(q, key) ==
    IF q = <<>> THEN <<>>
    ELSE InsertByKey(Sorted(SubSeq(q, 1, Len(q) - 1), key), q[Len(q)], key)

\* Series.dropna()
DropNa(cells) == SelectSeq(cells, LAMBDA c : c # Null)

\* data_processor.py:245-251: the key is computed for every value before the
\* sort; one ValueError sends the whole list to the sort by str
SortedUnique(unique) ==
    IF \E i \in 1..Len(unique) : DigitsWithoutDots(unique[i]) /\ FloatRaises(unique[i])
    THEN Sorted(unique, [x \in Elems(unique) |-> StrKey(x)])
    ELSE Sorted(unique, [x \in Elems(unique) |-> NumericKey(x)])

\* data_processor.py:238-254
get_unique_values(df, name, sorted_order) ==
    IF name \notin DOMAIN df THEN <<>>
    ELSE LET unique == UniqueInOrder(DropNa(df[name].cells))
         IN IF sorted_order THEN SortedUnique(unique) ELSE unique

UniqueColumns == {"sector", "year", "distrito"}

CellSeqs(dom, n) == [1..n -> {dom[i] : i \in 1..Len(dom)}]

InitUnique ==
    /\ view = None /\ outcome = "idle" /\ activity_type = None /\ filters = EmptyDict
    /\ raw = None /\ downcasting = FALSE
    /\ phase = "built" /\ built = None
    /\ RenderIdle
    /\ CercoIdle
    /\ UnifyIdle
    /\ SessionIdle
    /\ UniqueIdle
    /\ HelperIdle
    /\ \E n \in 0..MaxUniqueCells :
          \/ \E q \in CellSeqs(UniqueTextCellSeq, n) :
                /\ data = OneColumn("sector",
                                    [dtype |-> IF AnyNull(q) THEN "category" ELSE "object",
                                     cells |-> q])
                /\ is_production = AnyNull(q)
          \/ \E q \in CellSeqs(UniqueNumCellSeq, n) :
                /\ data = OneColumn("year", [dtype |-> "float64", cells |-> q])
                /\ is_production = FALSE

GetUniqueValues ==
    /\ uv_column = None
    /\ \E name \in UniqueColumns : \E sorted_order \in BOOLEAN :
          /\ uv_column' = name
          /\ uv_sorted' = sorted_order
          /\ unique_values' = get_unique_values(data, name, sorted_order)
    /\ UNCHANGED <<data, callVars, normVars, renderVars, cercoVars, unifyVars,
                   sessionVars, helperVars>>

NextUnique == GetUniqueValues

SpecUnique == InitUnique /\ [][NextUnique]_vars

\* the distinct non-null values of a column of self.data
DistinctValues(name) ==
    {data[name].cells[i] : i \in 1..Len(data[name].cells)} \ {Null}

\* each distinct non-null value exactly once
EachValueOnce(name) ==
    /\ Elems(unique_values) = DistinctValues(name)
    /\ Len(unique_values) = Cardinality(DistinctValues(name))

\* a value that is a number or the text of one
IsNumeric(cell) == DigitsWithoutDots(cell) /\ ~FloatRaises(cell)

\* x may stand before y: numbers ascending first, then the other values in
\* ascending string order
InOrder(x, y) ==
    IF IsNumeric(x)
    THEN IsNumeric(y) => FloatTenths(x) <= FloatTenths(y)
    ELSE ~IsNumeric(y) /\ KeyLessEq(StrKey(x), StrKey(y))

\* C20: get_unique_values(column, sorted_order=True) returns each distinct
\* non-null value of the column exactly once, the numeric values ascending
\* first and the other values after them in ascending string order; for a
\* column that does not exist it returns the empty list
C20_UniqueValuesSorted ==
    (uv_column # None /\ uv_sorted) =>
        IF uv_column \notin DOMAIN data THEN unique_values = <<>>
        ELSE /\ EachValueOnce(uv_column)
             /\ \A i, j \in 1..Len(unique_values) :
                   i < j => InOrder(unique_values[i], unique_values[j])

\* the part of C20 the code keeps: each distinct non-null value exactly once,
\* the empty list for a missing column, and the values of digits and dots
\* ascending before all others when every one of them is a number
C20_DistinctAndDigitsFirst ==
    (uv_column # None /\ uv_sorted) =>
        IF uv_column \notin DOMAIN data THEN unique_values = <<>>
        ELSE /\ EachValueOnce(uv_column)
             /\ (\A x \in DistinctValues(uv_column) : ~FloatRaises(x)) =>
                   \A i, j \in 1..Len(unique_values) :
                      (i < j /\ IsNumeric(unique_values[j])) =>
                          /\ IsNumeric(unique_values[i])
                          /\ FloatTenths(unique_values[i]) <= FloatTenths(unique_values[j])

(***************************************************************************)
(* FilterComponent.apply_date_filter, as CercoTab.render calls it on the   *)
(* view get_filtered_data returned.  A timestamp is a day number and the   *)
(* minute of that day; a date is a day number.                             *)
(***************************************************************************)
MaxDateRows == 3

Days == 1..3
Minutes == {0, 870}

\* a cell of the datetime64 column fecha_inspeccion; NaT is Null
Timestamp(day, minute) == [t |-> "ts", day |-> day, minute |-> minute]
DateCells == {Null} \cup {Timestamp(d, m) : d \in Days, m \in Minutes}

\* Series.dt.date on one cell: the time of day is dropped, NaT stays null
DtDate(cell) == IF cell = Null THEN Null ELSE [t |-> "date", day |-> cell.day]

\* (series >= start_date) on one cell: a comparison with a null is False
DateGe(d, start) == d # Null /\ d.day >= start
\* (series <= end_date) on one cell
DateLe(d, end) == d # Null /\ d.day <= end

\* mutant: the timestamp itself is compared with the end date at midnight
InWindowOfTimestamps(cell, start, end) ==
    /\ cell # Null
    /\ cell.day >= start
    /\ cell.day < end \/ (cell.day = end /\ cell.minute = 0)

\* filters.py:183-186, the mask on one cell
InWindow(cell, start, end) ==
    DateGe(DtDate(cell), start) /\ DateLe(DtDate(cell), end)

\* filters.py:179-187: [out, data], the returned frame and the caller's frame
\* after the call
apply_date_filter(frame, range) ==
    IF range.present /\ "fecha_inspeccion" \in frame.columns
    THEN [out |-> [frame EXCEPT !.rows =
                      SelectSeq(frame.rows,
                                LAMBDA r : InWindow(r.fecha_inspeccion, range.start,
                                                    range.end))],
          data |-> frame]
    ELSE [out |-> frame, data |-> frame]

DateRow(i, cell) == [idx |-> i, fecha_inspeccion |-> cell]

\* a view with the date column, cells c, or without it
DateView(c, with_dates) ==
    IF with_dates
    THEN [columns |-> {"fecha_inspeccion", "sector"},
          rows |-> [i \in 1..Len(c) |-> DateRow(i, c[i])]]
    ELSE [columns |-> {"sector"},
          rows |-> [i \in 1..Len(c) |-> [idx |-> i]]]

\* filters.py:155-175: the date inputs of the sidebar, or no date_range key
DateRanges ==
    {NoRange} \cup {[present |-> TRUE, start |-> a, end |-> b] : a \in Days, b \in Days}

InitDate ==
    /\ data = None /\ view = None /\ outcome = "idle" /\ activity_type = None
    /\ filters = EmptyDict
    /\ raw = None /\ is_production = FALSE /\ downcasting = FALSE
    /\ phase = "built" /\ built = None
    /\ RenderIdle
    /\ CercoIdle
    /\ UnifyIdle
    /\ SessionIdle
    /\ UniqueIdle
    /\ ClusterIdle
    /\ \E n \in 0..MaxDateRows : \E c \in [1..n -> DateCells] : \E with_dates \in BOOLEAN :
          /\ date_view = DateView(c, with_dates)
          /\ date_given = date_view
    /\ date_range \in DateRanges
    /\ date_applied = FALSE
    /\ date_filtered = None

\* cerco_tab.py:30-31
ApplyDateFilter ==
    /\ ~date_applied
    /\ date_applied' = TRUE
    /\ IF date_range.present
       THEN LET call == apply_date_filter(date_view, date_range)
            IN /\ date_filtered' = call.out
               /\ date_view' = call.data
       ELSE /\ date_filtered' = date_view
            /\ date_view' = date_view
    /\ UNCHANGED <<date_given, date_range, data, callVars, normVars, renderVars,
                   cercoVars, unifyVars, sessionVars, uniqueVars, clusterVars>>

NextDate == ApplyDateFilter

SpecDate == InitDate /\ [][NextDate]_vars

\* the call of apply_date_filter was made on a view with the date column
DateFilterRan ==
    date_applied /\ date_range.present /\ "fecha_inspeccion" \in date_given.columns

\* C21: apply_date_filter(view, (start, end)) returns exactly the rows of the
\* view whose fecha_inspeccion, cut to its date d, has start <= d <= end, in
\* the order of the view; a row on the end date is kept whatever its time, a
\* row without a date is left out, and the view passed in is as it was
C21_DateRangeInclusive ==
    DateFilterRan =>
        /\ date_view = date_given
        /\ date_filtered.columns = date_given.columns
        /\ date_filtered.rows =
              SelectSeq(date_given.rows,
                        LAMBDA r : /\ r.fecha_inspeccion # Null
                                   /\ date_range.start <= r.fecha_inspeccion.day
                                   /\ r.fecha_inspeccion.day <= date_range.end)

\* a view with a row on the end date in the afternoon, which is kept, a row
\* without a date and a row after the end date, which are not
C21_Witness ==
    /\ DateFilterRan
    /\ \E i, j, k \in 1..Len(date_given.rows) :
          /\ date_given.rows[i].fecha_inspeccion = Timestamp(date_range.end, 870)
          /\ date_given.rows[i] \in Elems(date_filtered.rows)
          /\ date_given.rows[j].fecha_inspeccion = Null
          /\ date_given.rows[j] \notin Elems(date_filtered.rows)
          /\ date_given.rows[k].fecha_inspeccion # Null
          /\ date_given.rows[k].fecha_inspeccion.day > date_range.end
          /\ date_given.rows[k] \notin Elems(date_filtered.rows)

(***************************************************************************)
(* SectorSimilarityDetector.find_similar_sectors called on a list of       *)
(* labels: repeated labels, blank labels and nulls included.               *)
(***************************************************************************)
MaxClusterLabels == 4

ClusterLabels == UnifyLabels \cup {"SAN JUANAS", Blank, "  ", None}

InitCluster ==
    /\ data = None /\ view = None /\ outcome = "idle" /\ activity_type = None
    /\ filters = EmptyDict
    /\ raw = None /\ is_production = FALSE /\ downcasting = FALSE
    /\ phase = "built" /\ built = None
    /\ RenderIdle
    /\ CercoIdle
    /\ UnifyIdle
    /\ SessionIdle
    /\ UniqueIdle
    /\ DateIdle
    /\ \E n \in 0..MaxClusterLabels : given_sectors \in [1..n -> ClusterLabels]
    /\ clustered = FALSE
    /\ reported_groups = <<>>

\* sector_similarity.py:51-97
FindSimilarSectors ==
    /\ ~clustered
    /\ clustered' = TRUE
    /\ reported_groups' = find_similar_sectors(given_sectors)
    /\ UNCHANGED <<given_sectors, data, callVars, normVars, renderVars, cercoVars,
                   unifyVars, sessionVars, uniqueVars, dateVars>>

NextCluster == FindSimilarSectors

SpecCluster == InitCluster /\ [][NextCluster]_vars

\* the labels that count, once each, in input order
Candidates == UniqueInOrder(ValidSectors(given_sectors))

Similar(x, y) == calculate_similarity(x, y) >= similarity_threshold

\* the k-th candidate is a group representative: no earlier representative
\* is similar to it
RECURSIVE IsRepresentative(_)
IsRepresentative(k) ==
    \A j \in 1..(k - 1) : IsRepresentative(j) => ~Similar(Candidates[j], Candidates[k])

\* the earliest representative before the k-th candidate that is similar to it
HomeOf(k) ==
    CHOOSE j \in 1..(k - 1) :
        /\ IsRepresentative(j) /\ Similar(Candidates[j], Candidates[k])
        /\ \A i \in 1..(j - 1) :
              ~(IsRepresentative(i) /\ Similar(Candidates[i], Candidates[k]))

\* the group of the representative at k: itself, then the labels whose home
\* it is, in input order
FirstFitGroup(k) ==
    LET joins == {m \in (k + 1)..Len(Candidates) : ~IsRepresentative(m) /\ HomeOf(m) = k}
        RECURSIVE Take(_)
        Take(m) == IF m > Len(Candidates) THEN <<>>
                   ELSE IF m \in joins THEN <<Candidates[m]>> \o Take(m + 1)
                   ELSE Take(m + 1)
    IN <<Candidates[k]>> \o Take(k + 1)

\* the groups of two or more labels, in the order of their representatives
RECURSIVE FirstFitGroupsFrom(_)
FirstFitGroupsFrom(k) ==
    IF k > Len(Candidates) THEN <<>>
    ELSE IF IsRepresentative(k) /\ Len(FirstFitGroup(k)) > 1
         THEN <<FirstFitGroup(k)>> \o FirstFitGroupsFrom(k + 1)
    ELSE FirstFitGroupsFrom(k + 1)

ReportedGroupLists == [i \in 1..Len(reported_groups) |-> reported_groups[i].group]

\* C22: find_similar_sectors puts each label into the group of the earliest
\* label before it that is a group representative and similar to it, a
\* label with no such representative starts its own group, and the groups
\* of two or more are reported; so every later member of a reported group
\* is similar to the group's first member
C22_GreedyFirstFit ==
    clustered =>
        /\ ReportedGroupLists = FirstFitGroupsFrom(1)
        /\ \A i \in 1..Len(reported_groups) :
              \A m \in 2..Len(reported_groups[i].group) :
                  Similar(reported_groups[i].group[1], reported_groups[i].group[m])

\* SAN JU, SAN JUAN, SAN JUANAS in this order: SAN JUANAS is similar to
\* SAN JUAN, a member, but not to the representative SAN JU, and stays out
C22_Witness ==
    /\ clustered
    /\ \E a, b, c \in 1..Len(given_sectors) :
          /\ a < b /\ b < c
          /\ given_sectors[a] = "SAN JU"
          /\ given_sectors[b] = "SAN JUAN"
          /\ given_sectors[c] = "SAN JUANAS"
    /\ \E i \in 1..Len(reported_groups) :
          /\ reported_groups[i].group = <<"SAN JU", "SAN JUAN">>
    /\ \A i \in 1..Len(reported_groups) :
          "SAN JUANAS" \notin Elems(reported_groups[i].group)

\* the place of the group's key among its members
KeyPlace(g) == CHOOSE m \in 1..Len(g.group) : g.group[m] = g.key

\* C23: every reported group is keyed by one of its members, one of minimal
\* length and the first of that length in the group; no two groups share a
\* key
C23_GroupKey ==
    clustered =>
        /\ \A i \in 1..Len(reported_groups) :
              LET g == reported_groups[i]
              IN /\ g.key \in Elems(g.group)
                 /\ \A m \in 1..Len(g.group) : StrLen(g.key) <= StrLen(g.group[m])
                 /\ \A m \in 1..(KeyPlace(g) - 1) : StrLen(g.group[m]) > StrLen(g.key)
        /\ \A i, j \in 1..Len(reported_groups) :
              i # j => reported_groups[i].key # reported_groups[j].key

\* a group whose two shortest members have the same length: the key is the
\* one that joined first
C23_Witness ==
    /\ clustered
    /\ \E i \in 1..Len(reported_groups) :
          LET g == reported_groups[i]
          IN \E m \in 1..Len(g.group) :
                /\ g.group[m] # g.key
                /\ StrLen(g.group[m]) = StrLen(g.key)
                /\ m > KeyPlace(g)

\* C29: every label is in at most one reported group, and once in it, also
\* when the list holds a label more than once; a null or blank label is in
\* no group
C29_GroupsDisjoint ==
    clustered =>
        /\ \A i, j \in 1..Len(reported_groups) :
              i # j => Elems(reported_groups[i].group)
                          \cap Elems(reported_groups[j].group) = {}
        /\ \A i \in 1..Len(reported_groups) :
              LET g == reported_groups[i].group
              IN /\ Cardinality(Elems(g)) = Len(g)
                 /\ \A m \in 1..Len(g) : g[m] # None /\ Strip(g[m]) # ""

\* SAN JUAN is similar to the representatives SAN JU and SAN JUANAS, which
\* are not similar to each other, and is reported in the group of SAN JU
\* only; the list holds a blank or null label too
C29_Witness ==
    /\ clustered
    /\ \E a, b, c \in 1..Len(given_sectors) :
          /\ a < b /\ b < c
          /\ given_sectors[a] = "SAN JU"
          /\ given_sectors[b] = "SAN JUANAS"
          /\ given_sectors[c] = "SAN JUAN"
    /\ Len(reported_groups) = 1
    /\ reported_groups[1].group = <<"SAN JU", "SAN JUAN">>
    /\ \E a \in 1..Len(given_sectors) : given_sectors[a] \in {Blank, "  ", None}

(***************************************************************************)
(* Which unification mapping get_filtered_data applies                     *)
(***************************************************************************)
\* the last call had no activity type and no column filter, on a table with
\* the sector and province columns: every row is returned
UnificationCall ==
    /\ Returned
    /\ activity_type = None
    /\ DOMAIN filters \subseteq {ByProvinceKey, FlatKey}
    /\ {"sector", "nombre_prov"} \subseteq data.columns

\* the label of canonical row d under the by-province mapping bp
ScopedLabel(d, bp) ==
    IF d.nombre_prov \in DOMAIN bp THEN SeriesReplace(d.sector, bp[d.nombre_prov])
    ELSE d.sector

AllRowsReturned == ViewIdx = {data.rows[i].idx : i \in 1..Len(data.rows)}

\* C24 as stated: a non-empty by-province mapping is the only unification
\* applied; when the by-province mapping is absent or empty and a flat
\* mapping is present, the flat mapping is applied to the rows of every
\* province
C24_MappingPrecedence ==
    UnificationCall =>
        /\ AllRowsReturned
        /\ \A x \in ViewIdx :
              LET d == data.rows[x]
                  r == ViewRow(x)
              IN IF ByProvinceKey \in DOMAIN filters /\ TruthyDict(filters[ByProvinceKey])
                 THEN r.sector = ScopedLabel(d, filters[ByProvinceKey])
                 ELSE IF FlatKey \in DOMAIN filters /\ TruthyDict(filters[FlatKey])
                 THEN r.sector = SeriesReplace(d.sector, filters[FlatKey])
                 ELSE r.sector = d.sector

\* C24 amended: what decides is the presence of the by-province key.  When
\* the key is present its mapping is the only unification applied, and an
\* empty one means no unification at all, a flat mapping notwithstanding;
\* the flat mapping is applied, to the rows of every province, only when
\* the by-province key is absent
C24_KeyPresencePrecedence ==
    UnificationCall =>
        /\ AllRowsReturned
        /\ \A x \in ViewIdx :
              LET d == data.rows[x]
                  r == ViewRow(x)
              IN IF ByProvinceKey \in DOMAIN filters
                 THEN r.sector = ScopedLabel(d, filters[ByProvinceKey])
                 ELSE IF FlatKey \in DOMAIN filters
                 THEN r.sector = SeriesReplace(d.sector, filters[FlatKey])
                 ELSE r.sector = d.sector

\* both keys are present, the by-province mapping is empty, and a row whose
\* label is a key of the flat mapping is returned with its label unchanged
C24_Witness ==
    /\ UnificationCall
    /\ DOMAIN filters = {ByProvinceKey, FlatKey}
    /\ ~TruthyDict(filters[ByProvinceKey])
    /\ \E x \in ViewIdx :
          /\ data.rows[x].sector \in DOMAIN filters[FlatKey]
          /\ ViewRow(x).sector = data.rows[x].sector
          /\ filters[FlatKey][data.rows[x].sector] # data.rows[x].sector

(***************************************************************************)
(* What the render guard shows and what it reports                         *)
(***************************************************************************)
\* C25: for a table over a ceiling, safe_dataframe shows the schema summary
\* and no row data exactly when the candidate slice, once the shrinking has
\* stopped, is still above 90% of the memory ceiling; otherwise it shows a
\* row slice
C25_SchemaFallback ==
    (pc = "done" /\ WasTooLarge) =>
        /\ shown \in {"schema", "slice"}
        /\ shown = "schema" <=>
              OverMargin(MemoryKB(table, safe_row_count), max_memory_kb)
        /\ shown = "schema" => shown_rows = 0
        /\ shown = "slice" => shown_rows > 0

\* a table whose first 10 rows alone are above the margin: the summary is
\* shown although the row count never came down to the minimum of 50
C25_Witness ==
    /\ pc = "done"
    /\ shown = "schema"
    /\ shown_rows = 0
    /\ safe_row_count < min_rows
    /\ OverMargin(MemoryKB(table, safe_row_count), max_memory_kb)

\* C26: whenever a truncated slice is displayed, every row count reported
\* agrees with it: the rows announced and the rows in the metric are the
\* rows of the slice, and the rows reported as not shown are the total rows
\* minus the rows displayed
C26_ReportsAgreeWithSlice ==
    (pc = "done" /\ shown = "slice") =>
        /\ warned_rows.rows = shown_rows
        /\ metric_rows.rows = shown_rows
        /\ not_shown.said => not_shown.rows = table.rows - shown_rows

\* the part of C26 the code keeps: the metric, written again after the
\* shrinking, is the number of rows of the slice
C26_MetricAgreesWithSlice ==
    (pc = "done" /\ shown = "slice") => metric_rows.rows = shown_rows

(***************************************************************************)
(* The effectiveness table of calculate_cerco_effectiveness                *)
(***************************************************************************)
\* the rows of facility f in the view, by position
RowsOfFacility(f) ==
    {i \in 1..Len(cerco_view.rows) : cerco_view.rows[i].localidad_eess = f}

AttendedAt(f) ==
    {i \in RowsOfFacility(f) :
        \E a \in 1..4 : cerco_view.rows[i].atencion_vivienda_indicador = Num(a)}

PositiveAt(f) ==
    {i \in RowsOfFacility(f) :
        /\ cerco_view.rows[i].viv_positiva = 1
        /\ cerco_view.rows[i].atencion_vivienda_indicador = Num(1)}

\* x is the number n / d
IsQuotient(x, n, d) == x.t = "num" /\ x.n * d = n * x.d

\* C27: for every facility in the view, calculate_cerco_effectiveness
\* reports total_houses = the number of its rows with attention indicator in
\* {1,2,3,4}, positive_houses = the number of its rows with positivity flag 1
\* and attention indicator 1, and effectiveness_percentage =
\* (total_houses - positive_houses) / total_houses x 100, or 0 when
\* total_houses is 0; the value is in [0, 100]
C27_EffectivenessFormula ==
    (Computed("calculate_cerco_effectiveness") /\ ~IsEmptyView(cerco_view)) =>
        /\ DOMAIN result.out = Facilities(cerco_view.rows)
        /\ \A f \in DOMAIN result.out :
              LET rec == result.out[f]
                  total == Cardinality(AttendedAt(f))
                  positive == Cardinality(PositiveAt(f))
              IN /\ rec.total_houses = total
                 /\ rec.positive_houses = positive
                 /\ positive <= total
                 /\ IF total = 0 THEN IsZero(rec.effectiveness_percentage)
                    ELSE IsQuotient(rec.effectiveness_percentage,
                                    100 * (total - positive), total)
                 /\ InRange(rec.effectiveness_percentage)

\* a facility with two attended houses of which one is inspected and
\* positive, and another positive row that was not inspected
C27_Witness ==
    /\ Computed("calculate_cerco_effectiveness")
    /\ \E f \in DOMAIN result.out :
          /\ result.out[f].total_houses = 2
          /\ result.out[f].positive_houses = 1
          /\ \E i \in RowsOfFacility(f) :
                /\ cerco_view.rows[i].viv_positiva = 1
                /\ cerco_view.rows[i].atencion_vivienda_indicador # Num(1)

(***************************************************************************)
(* The monthly table of _prepare_monthly_aedic_data                        *)
(***************************************************************************)
\* the rows of the view that have an inspection date, by position
DatedRows ==
    IF "fecha_inspeccion" \in cerco_view.columns
    THEN {i \in 1..Len(cerco_view.rows) : cerco_view.rows[i].dated}
    ELSE {}

PairOf(i) == <<cerco_view.rows[i].cod_renipress, cerco_view.rows[i].month>>

InspectedOfPair(g) ==
    {i \in DatedRows :
        PairOf(i) = g /\ cerco_view.rows[i].atencion_vivienda_indicador = Num(1)}

PositiveOfPair(g) == {i \in InspectedOfPair(g) : cerco_view.rows[i].viv_positiva = 1}

\* C28: _prepare_monthly_aedic_data produces one record per (facility code,
\* month) pair that has at least one row with a non-null inspection date; in
\* each record inspected = the number of rows of the pair with attention 1,
\* positive = the number of rows with attention 1 and positive 1, and
\* index = positive / inspected x 100, or 0 when inspected is 0
C28_MonthlyAedicIndex ==
    Computed("_prepare_monthly_aedic_data") =>
        /\ DOMAIN result.out = {PairOf(i) : i \in DatedRows}
        /\ \A g \in DOMAIN result.out :
              LET rec == result.out[g]
                  inspected == Cardinality(InspectedOfPair(g))
                  positive == Cardinality(PositiveOfPair(g))
              IN /\ rec.viviendas_inspeccionadas = inspected
                 /\ rec.viviendas_positivas = positive
                 /\ IF inspected = 0 THEN IsZero(rec.indice_aedico)
                    ELSE IsQuotient(rec.indice_aedico, 100 * positive, inspected)

\* a pair with two inspected houses, one of them positive, in a view that
\* also has an inspected house without a date at the same facility
C28_Witness ==
    /\ Computed("_prepare_monthly_aedic_data")
    /\ \E g \in DOMAIN result.out :
          /\ result.out[g].viviendas_inspeccionadas = 2
          /\ result.out[g].viviendas_positivas = 1
          /\ \E i \in 1..Len(cerco_view.rows) :
                /\ ~cerco_view.rows[i].dated
                /\ cerco_view.rows[i].cod_renipress = g[1]
                /\ cerco_view.rows[i].atencion_vivienda_indicador = Num(1)

(***************************************************************************)
(* The calculation routines and the view they are given                    *)
(***************************************************************************)
\* C30: after any Cerco calculation routine returns, the view passed to it
\* has the same columns and the same rows as before the call
C30_ViewUnchanged == [][cerco_view' = cerco_view]_vars

\* every routine but calculate_cerco_monthly_trends leaves the view as it
\* was, and calculate_cerco_monthly_trends leaves its rows as they were
C30_OnlyMonthlyTrendsAddsColumn ==
    [][/\ cerco_view'.rows = cerco_view.rows
       /\ cerco_view'.columns \subseteq cerco_view.columns \cup {"month_year"}
       /\ calc' # "calculate_cerco_monthly_trends" => cerco_view' = cerco_view]_vars

====
